---- MODULE Spec2Model ----
(***************************************************************************)
(* Timer abstraction (three backends) and the I2C transport layer's        *)
(* guard-time policy of optiga-nbt-rpi-port.                               *)
(*                                                                         *)
(* Time is counted in microseconds and advances in steps of Quantum.       *)
(* An "alarm" is the OS / scheduler / hardware object behind one armed     *)
(* Timer: a POSIX per-process timer (timer-rpi.c), a FreeRTOS software     *)
(* timer (timer-freertos.c) or a CYHAL hardware counter (timer-cyhal.c).   *)
(* A "block" is one heap allocation holding the backend state a Timer's    *)
(* _start pointer refers to.                                               *)
(***************************************************************************)
EXTENDS Integers, Sequences, FiniteSets, TLC

VARIABLES
    backend,    \* Timer implementation linked into the build
    tmr,        \* ifx_timer_t objects: [_start, _duration] per handle
    heap,       \* backend state blocks (malloc/calloc'ed structs)
    alarms,     \* OS timers / FreeRTOS timers / hardware counters
    uaf,        \* an expiry notification touched released backend state
    res,        \* what the last completed Timer API call returned
    gDur,       \* per handle: duration of the last successful set
    gAge,       \* per handle: time since the last successful set (capped)
    gJoined,    \* per handle: join returned on the armed timer, not re-armed
    props,      \* I2CCyHALProtocolProperties of the transport instance
    pc,         \* position of the transport call in progress
    call,       \* the transport call in progress / last made
    ret,        \* status returned by the last completed transport call
    done,       \* facts recorded when the last bus operation returned
    sinceDone,  \* time since the last bus operation returned (capped)
    gZero,      \* the guard time has been 0 ever since initialize
    out,        \* what the last transport call wrote to its output parameters
    rtos        \* the queued RTOS logger: its data, queue, messages and tasks

timerVars == <<tmr, heap, alarms, uaf>>
ghostVars == <<res, gDur, gAge, gJoined>>
i2cVars   == <<props, pc, call, ret, done, sinceDone, gZero, out>>
vars      == <<backend, tmr, heap, alarms, uaf, res, gDur, gAge, gJoined,
               props, pc, call, ret, done, sinceDone, gZero, out, rtos>>

(***************************************************************************)
(* Bounds and program constants                                            *)
(***************************************************************************)
MaxBlk == 2
MaxDur == 2
US_PER_MS == 1000
NSEC_PER_USEC == 1000
NSEC_PER_SEC == 1000000000

Quantum   == US_PER_MS \div 2
Durations == {k * Quantum : k \in 0..MaxDur}
AgeCap    == (MaxDur + 2) * Quantum
Blocks    == 1..MaxBlk
AlarmIds  == 1..MaxBlk
Handles   == {1, 2}
GUARD     == 1
Backends  == {"posix", "freertos", "cyhal"}

Min(a, b) == IF a < b THEN a ELSE b
Max(a, b) == IF a > b THEN a ELSE b

(***************************************************************************)
(* Status codes: IFX_ERROR(module, function, reason)                       *)
(***************************************************************************)
IFX_ERROR(module, function, reason) ==
    [module |-> module, function |-> function, reason |-> reason]
IFX_SUCCESS == [module |-> "NONE", function |-> "NONE", reason |-> "SUCCESS"]
ifx_error_check(status) == status # IFX_SUCCESS

TIMER_NOT_SET == IFX_ERROR("LIB_TIMER", "IFX_TIMER_JOIN", "IFX_TIMER_NOT_SET")

\* us > UINT32_MAX, written without a literal above 2^31
ExceedsUint32(us) == (us \div 65536) >= 65536

(***************************************************************************)
(* The queued RTOS logger (logger-cyhal-rtos.c)                            *)
(***************************************************************************)
MaxMsgs == 2
LOGGER_CYHAL_RTOS_QUEUE_SIZE == 64
Msgs == 1..MaxMsgs

\* self_data: self->_data; data: the logger_cyhal_rtos_data block with its
\* queue; queue: the records queued; msg: per log call, the state of its
\* record and copied strings; logged: log calls made; accepted: calls that
\* returned success after enqueueing; delivered: records passed to the
\* wrapped logger, in order; prod / cons / dest: where the producer task,
\* the consumer task and the task in destroy stand; held: the record the
\* producer / consumer holds; stale: freed data or its queue was accessed
NoLogger ==
    [self_data |-> "NULL", data |-> "none", queue |-> <<>>,
     msg |-> [m \in Msgs |-> "unused"], logged |-> 0, accepted |-> {},
     delivered |-> <<>>, prod |-> "idle", cons |-> "none", dest |-> "idle",
     prodHeld |-> 0, consHeld |-> 0, stale |-> FALSE]

\* free() of the record and strings of message m
free_msg(msg, m) ==
    [msg EXCEPT ![m] = IF @ = "allocated" THEN "freed" ELSE "twice"]

LoggerIdle == UNCHANGED <<backend, timerVars, ghostVars, i2cVars>>

\* logger_cyhal_rtos_initialize(self, wrapped) with valid arguments
logger_cyhal_rtos_initialize(mallocOk, queueOk) ==
    /\ rtos.data = "none" /\ rtos.dest = "idle"
    /\ rtos' = IF mallocOk /\ queueOk
               THEN [rtos EXCEPT !.self_data = "data", !.data = "live"]
               ELSE rtos
    /\ LoggerIdle

\* logger_cyhal_rtos_start: the consumer task is created; it reads
\* self->_data once and then waits on the queue
logger_cyhal_rtos_start(threadOk) ==
    /\ rtos.cons = "none" /\ rtos.self_data # "NULL"
    /\ rtos' = IF threadOk THEN [rtos EXCEPT !.cons = "wait"] ELSE rtos
    /\ LoggerIdle

\* logger_cyhal_rtos_log up to the copy of the strings: level is "below"
\* the level of the logger or of the wrapped logger, or "at" it
logger_cyhal_rtos_log(level, mallocOk) ==
    /\ rtos.prod = "idle" /\ rtos.logged < MaxMsgs
    /\ LET m == rtos.logged + 1
       IN rtos' =
            IF rtos.self_data = "NULL"
            THEN [rtos EXCEPT !.logged = m]
            ELSE IF rtos.data = "freed"
            THEN \* data->wrapped->_level is read from the released block
                 [rtos EXCEPT !.logged = m, !.stale = TRUE]
            ELSE IF level = "below" \/ ~mallocOk
            THEN [rtos EXCEPT !.logged = m]
            ELSE [rtos EXCEPT !.logged = m, !.msg[m] = "allocated",
                              !.prod = "put", !.prodHeld = m]
    /\ LoggerIdle

\* cy_rtos_queue_put(&data->queue, &queueable, 0) and the return of log; on
\* a released queue the put may appear to succeed or fail
logger_cyhal_rtos_log_put ==
    /\ rtos.prod = "put"
    /\ LET m == rtos.prodHeld
       IN \E ok \in (IF rtos.data = "freed" THEN BOOLEAN
                     ELSE {Len(rtos.queue) < LOGGER_CYHAL_RTOS_QUEUE_SIZE}) :
            rtos' = [rtos EXCEPT
                       !.prod = "idle", !.prodHeld = 0,
                       !.stale = (@ \/ rtos.data = "freed"),
                       !.queue = IF ok /\ rtos.data = "live"
                                 THEN Append(@, m) ELSE @,
                       !.accepted = IF ok THEN @ \cup {m} ELSE @,
                       !.msg = IF ok THEN @ ELSE free_msg(@, m)]
    /\ LoggerIdle

\* logger_cyhal_rtos_task: cy_rtos_queue_get returns a record; on released
\* data the task is not followed further
logger_cyhal_rtos_task_get ==
    /\ rtos.cons = "wait"
    /\ IF rtos.data = "freed"
       THEN rtos' = [rtos EXCEPT !.stale = TRUE, !.cons = "halt"]
       ELSE /\ rtos.queue # <<>>
            /\ rtos' = [rtos EXCEPT !.queue = Tail(@), !.cons = "got",
                                     !.consHeld = Head(rtos.queue)]
    /\ LoggerIdle

\* logger_cyhal_rtos_task: data->wrapped->_log(...) and the three frees
logger_cyhal_rtos_task_log ==
    /\ rtos.cons = "got"
    /\ rtos' = IF rtos.data = "freed"
               THEN [rtos EXCEPT !.stale = TRUE, !.cons = "halt"]
               ELSE [rtos EXCEPT !.delivered = Append(@, rtos.consHeld),
                                 !.msg = free_msg(@, rtos.consHeld),
                                 !.cons = "wait", !.consHeld = 0]
    /\ LoggerIdle

\* logger_cyhal_rtos_destroy, one statement at a time: the drain loop
\* (one cy_rtos_queue_get per step), then queue_deinit and free(data),
\* then self->_data = NULL and cy_rtos_thread_exit of the calling task
logger_cyhal_rtos_destroy ==
    /\ rtos' =
         CASE rtos.dest = "idle" /\ rtos.self_data = "NULL" ->
                [rtos EXCEPT !.dest = "done"]
           [] rtos.dest = "idle" /\ rtos.self_data # "NULL" ->
                [rtos EXCEPT !.dest = "drain"]
           [] rtos.dest = "drain" /\ rtos.queue # <<>> ->
                [rtos EXCEPT !.queue = Tail(@),
                             !.msg = free_msg(@, Head(rtos.queue))]
           [] rtos.dest = "drain" /\ rtos.queue = <<>> ->
                [rtos EXCEPT !.dest = "deinit"]
           [] rtos.dest = "deinit" ->
                [rtos EXCEPT !.queue = <<>>, !.data = "freed", !.dest = "clear"]
           [] rtos.dest = "clear" ->
                [rtos EXCEPT !.self_data = "NULL", !.dest = "done"]
           [] OTHER -> rtos
    /\ rtos.dest # "done"
    /\ LoggerIdle

(***************************************************************************)
(* Heap blocks and alarms                                                  *)
(***************************************************************************)
NoBlock == [live |-> FALSE, timerId |-> 0, is_timer_elapsed |-> FALSE,
            sleeper |-> "NULL"]
NoAlarm == [st |-> "free", rem |-> 0, arg |-> 0]
NoTimer == [start |-> 0, duration |-> 0]

FreeBlocks(h) == {b \in Blocks : ~h[b].live}
FreeAlarms(al) == {a \in AlarmIds : al[a].st = "free"}

\* malloc / calloc may return any free block, or NULL (0)
MallocChoices(h) == FreeBlocks(h) \cup {0}
\* timer_create / xTimerCreate / cyhal_timer_init take a free slot or fail
\* (0).  Slots are interchangeable (nothing refers to an alarm but the block
\* that created it), so the lowest free one stands for any of them.
CreateChoices(al) ==
    {a \in FreeAlarms(al) : \A c \in FreeAlarms(al) : a <= c} \cup {0}

Res(t, h, al, s) == [tmr |-> t, heap |-> h, alarms |-> al, status |-> s]

\* whether a delete of the alarm of handle h leaves its notification in
\* flight is open only when the handle holds backend state
DeleteChoices(t, h) == IF t[h].start # 0 THEN BOOLEAN ELSE {FALSE}

free(h, b) == [h EXCEPT ![b] = NoBlock]

\* timer_delete / xTimerDelete / cyhal_timer_free of alarm a.  An alarm that
\* has expired but whose notification was not run yet may still notify
\* after the delete (z): POSIX leaves pending signals of a deleted timer
\* unspecified; xTimerDelete only queues a command for the timer task.
os_timer_delete(al, a, z) ==
    IF a = 0 \/ al[a].st \in {"free", "zombie"} THEN al
    ELSE IF al[a].st = "armed" /\ al[a].rem = 0 /\ z
         THEN [al EXCEPT ![a].st = "zombie"]
         ELSE [al EXCEPT ![a] = NoAlarm]

\* result of timer_delete: 0 on an existing timer, -1 (EINVAL) otherwise
os_timer_delete_ok(al, a) == a # 0 /\ al[a].st \in {"armed", "idle"}

(***************************************************************************)
(* Signal-driven backend (timer-rpi.c)                                     *)
(***************************************************************************)
SET_ERROR(reason) == IFX_ERROR("LIB_TIMER", "IFX_TIMER_SET", reason)
JOIN_ERROR(reason) == IFX_ERROR("LIB_TIMER", "IFX_TIMER_JOIN", reason)

\* handler(): the signal carries sival_ptr = the block given at timer_create
rpi_handler(hp, data) ==
    IF hp[data].live THEN [hp EXCEPT ![data].is_timer_elapsed = TRUE] ELSE hp

\* faulty variant: the error paths return without releasing the block
rpi_set_leaks_block(t, hp, al, h, us, b, a, f) ==
    IF b = 0 THEN Res(t, hp, al, SET_ERROR("IFX_OUT_OF_MEMORY"))
    ELSE
      LET hp1 == [hp EXCEPT ![b] = [NoBlock EXCEPT !.live = TRUE]]
          hp2 == [hp1 EXCEPT ![b].timerId = a]
          al2 == [al EXCEPT ![a] = [st |-> IF us = 0 THEN "idle" ELSE "armed",
                                    rem |-> us, arg |-> b]]
      IN IF a = 0 \/ f # "none"
         THEN Res(t, hp1, al, SET_ERROR("IFX_UNSPECIFIED_ERROR"))
         ELSE Res([t EXCEPT ![h].start = b], hp2, al2, IFX_SUCCESS)

\* b: block malloc returns (0 = NULL); a: timer id timer_create yields
\* (0 = failure); f: the later call that fails, if any
rpi_timer_set(t, hp, al, h, us, b, a, f) ==
    IF ExceedsUint32(us) THEN Res(t, hp, al, SET_ERROR("IFX_ILLEGAL_ARGUMENT"))
    ELSE IF b = 0 THEN Res(t, hp, al, SET_ERROR("IFX_OUT_OF_MEMORY"))
    ELSE
      LET tv_nsec == us * NSEC_PER_USEC
          hp1 == [hp EXCEPT ![b] = [NoBlock EXCEPT !.live = TRUE,
                                                   !.is_timer_elapsed = FALSE]]
          \* timer_create: a new, disarmed timer whose signal carries b
          al1 == [al EXCEPT ![a] = [st |-> "idle", rem |-> 0, arg |-> b]]
          hp2 == [hp1 EXCEPT ![b].timerId = a]
          \* timer_settime: a zero it_value leaves the timer disarmed
          al2 == IF tv_nsec = 0 THEN al1
                 ELSE [al1 EXCEPT ![a] = [st |-> "armed", rem |-> us, arg |-> b]]
      IN IF a = 0
         THEN \* free_timer
              Res(t, free(hp1, b), al, SET_ERROR("IFX_UNSPECIFIED_ERROR"))
         ELSE IF f = "sigaction" \/ f = "arm" \/ tv_nsec >= NSEC_PER_SEC
         THEN \* deinit_timer: the block is freed only if timer_delete succeeds
              IF os_timer_delete_ok(al1, a)
              THEN Res(t, free(hp2, b), os_timer_delete(al1, a, FALSE),
                       SET_ERROR("IFX_UNSPECIFIED_ERROR"))
              ELSE Res(t, hp2, al1, SET_ERROR("IFX_UNSPECIFIED_ERROR"))
         ELSE Res([t EXCEPT ![h].start = b], hp2, al2, IFX_SUCCESS)

rpi_timer_has_elapsed(t, hp, al, h, u) ==
    IF t[h].start = 0 THEN TRUE
    ELSE hp[t[h].start].is_timer_elapsed = TRUE

\* the busy-poll of join has ended (or join does not poll at all)
rpi_join_ready(t, hp, al, h) ==
    IF t[h].start = 0 THEN TRUE ELSE hp[t[h].start].is_timer_elapsed

rpi_timer_join(t, hp, al, h, z) ==
    IF t[h].start = 0 THEN Res(t, hp, al, TIMER_NOT_SET)
    ELSE
      LET rpi_timer == t[h].start
          hp1 == [hp EXCEPT ![rpi_timer].is_timer_elapsed = FALSE]
          id  == hp[rpi_timer].timerId
      IN Res(t, hp1, os_timer_delete(al, id, z),
             IF os_timer_delete_ok(al, id) THEN IFX_SUCCESS
             ELSE JOIN_ERROR("IFX_UNSPECIFIED_ERROR"))

rpi_timer_destroy(t, hp, al, h, z) ==
    LET rpi_timer == t[h].start
    IN IF rpi_timer # 0
       THEN Res([t EXCEPT ![h] = NoTimer], free(hp, rpi_timer),
                os_timer_delete(al, hp[rpi_timer].timerId, z), IFX_SUCCESS)
       ELSE Res([t EXCEPT ![h] = NoTimer], hp, al, IFX_SUCCESS)

(***************************************************************************)
(* Scheduler-integrated backend (timer-freertos.c).  One tick is one       *)
(* millisecond (configTICK_RATE_HZ = 1000), so pdMS_TO_TICKS(ms) = ms.     *)
(***************************************************************************)
CeilMs(us) == (us + (US_PER_MS - 1)) \div US_PER_MS

\* timer_freertos_wakeup(): the timer ID is the ifx_timer_t, whose _start is
\* read when the callback runs
timer_freertos_wakeup(t, hp, h) ==
    LET data == t[h].start
    IN IF data = 0 THEN hp
       ELSE IF hp[data].sleeper # "NULL"
            THEN [hp EXCEPT ![data].sleeper = "FULL"]
            ELSE hp

\* xSemaphoreGive on a binary semaphore that is already full fails, and the
\* callback retries for ever: it completes only in the other cases
wakeup_completes(t, hp, h) ==
    LET data == t[h].start
    IN IF data = 0 THEN TRUE ELSE hp[data].sleeper # "FULL"

freertos_timer_set(t, hp, al, h, us, b, a, f) ==
    LET ms == CeilMs(us)
    IN
    IF ExceedsUint32(ms) THEN Res(t, hp, al, SET_ERROR("IFX_ILLEGAL_ARGUMENT"))
    ELSE IF b = 0 THEN Res(t, hp, al, SET_ERROR("IFX_OUT_OF_MEMORY"))
    ELSE
      LET hp1 == [hp EXCEPT ![b] = [NoBlock EXCEPT !.live = TRUE]]
          hp2 == [hp1 EXCEPT ![b].sleeper = "EMPTY"]
          \* xTimerCreate(NULL, pdMS_TO_TICKS(ms), pdFALSE, timer, wakeup)
          al1 == [al EXCEPT ![a] = [st |-> "idle", rem |-> 0, arg |-> h]]
          hp3 == [hp2 EXCEPT ![b].timerId = a]
          \* xTimerStart
          al2 == [al1 EXCEPT ![a] = [st |-> "armed", rem |-> ms * US_PER_MS,
                                     arg |-> h]]
      IN IF f = "sem"
         THEN Res(t, free(hp1, b), al, SET_ERROR("IFX_UNSPECIFIED_ERROR"))
         ELSE IF a = 0 \/ ms = 0
         THEN \* xTimerCreate returns NULL (a period of 0 ticks is rejected)
              Res(t, free([hp2 EXCEPT ![b].sleeper = "NULL"], b), al,
                  SET_ERROR("IFX_UNSPECIFIED_ERROR"))
         ELSE IF f = "arm"
         THEN Res(t, free([hp3 EXCEPT ![b].sleeper = "NULL"], b),
                  os_timer_delete(al1, a, FALSE),
                  SET_ERROR("IFX_UNSPECIFIED_ERROR"))
         ELSE Res([t EXCEPT ![h] = [start |-> b, duration |-> ms]],
                  hp3, al2, IFX_SUCCESS)

freertos_timer_has_elapsed(t, hp, al, h, u) ==
    IF t[h].start = 0 THEN TRUE
    ELSE LET data == hp[t[h].start]
         IN IF data.timerId = 0 THEN TRUE
            ELSE al[data.timerId].st # "armed"   \* xTimerIsTimerActive == pdFALSE

\* xSemaphoreTake(sleeper, portMAX_DELAY) can return
freertos_join_ready(t, hp, al, h) ==
    IF t[h].start = 0 THEN TRUE
    ELSE hp[t[h].start].sleeper \in {"NULL", "FULL"}

\* faulty variant: no check for an empty Timer
freertos_join_no_null_check(t, hp, al, h, z) ==
    IF t[h].start = 0 THEN Res(t, hp, al, IFX_SUCCESS)
    ELSE LET data == t[h].start
         IN IF hp[data].sleeper = "NULL" THEN Res(t, hp, al, TIMER_NOT_SET)
            ELSE Res(t, [hp EXCEPT ![data].sleeper = "EMPTY"], al, IFX_SUCCESS)

freertos_timer_join(t, hp, al, h, z) ==
    IF t[h].start = 0 THEN Res(t, hp, al, TIMER_NOT_SET)
    ELSE LET data == t[h].start
         IN IF hp[data].sleeper = "NULL" THEN Res(t, hp, al, TIMER_NOT_SET)
            ELSE Res(t, [hp EXCEPT ![data].sleeper = "EMPTY"], al, IFX_SUCCESS)

\* faulty variant: the backend state is released but _start is not reset
freertos_destroy_keeps_start(t, hp, al, h, z) ==
    LET data == t[h].start
    IN IF data # 0
       THEN Res(t, free(hp, data), os_timer_delete(al, hp[data].timerId, z),
                IFX_SUCCESS)
       ELSE Res(t, hp, al, IFX_SUCCESS)

freertos_timer_destroy(t, hp, al, h, z) ==
    LET data == t[h].start
    IN IF data # 0
       THEN Res([t EXCEPT ![h] = NoTimer], free(hp, data),
                os_timer_delete(al, hp[data].timerId, z), IFX_SUCCESS)
       ELSE Res([t EXCEPT ![h] = NoTimer], hp, al, IFX_SUCCESS)

(***************************************************************************)
(* Hardware countdown backend (timer-cyhal.c).  rem of the alarm is the    *)
(* value cyhal_timer_read returns; the counter runs at 1 MHz.              *)
(***************************************************************************)
\* cyhal_timer_free(obj): releases the hardware counter of the object
cyhal_timer_free(hp, al, obj) ==
    [heap |-> [hp EXCEPT ![obj].timerId = 0],
     alarms |-> os_timer_delete(al, hp[obj].timerId, FALSE)]

cyhal_timer_set(t, hp, al, h, us, b, a, f) ==
    IF ExceedsUint32(us) THEN Res(t, hp, al, SET_ERROR("IFX_ILLEGAL_ARGUMENT"))
    ELSE IF b = 0 THEN Res(t, hp, al, SET_ERROR("IFX_OUT_OF_MEMORY"))
    ELSE
      LET hp1 == [hp EXCEPT ![b] = [NoBlock EXCEPT !.live = TRUE]]
          \* cyhal_timer_init
          al1 == [al EXCEPT ![a] = [st |-> "idle", rem |-> 0, arg |-> 0]]
          hp2 == [hp1 EXCEPT ![b].timerId = a]
          \* cyhal_timer_configure(period = us, value = us), cyhal_timer_start
          al2 == [al1 EXCEPT ![a] = [st |-> "armed", rem |-> us, arg |-> 0]]
          fr  == cyhal_timer_free(hp2, al1, b)
      IN IF a = 0
         THEN Res(t, free(hp1, b), al, SET_ERROR("IFX_UNSPECIFIED_ERROR"))
         ELSE IF f \in {"freq", "configure", "arm"}
         THEN Res(t, free(fr.heap, b), fr.alarms,
                  SET_ERROR("IFX_UNSPECIFIED_ERROR"))
         ELSE Res([t EXCEPT ![h].start = b], hp2, al2, IFX_SUCCESS)

\* u: what reading a counter that was already released yields
cyhal_timer_has_elapsed(t, hp, al, h, u) ==
    IF t[h].start = 0 THEN TRUE
    ELSE LET cy_timer == hp[t[h].start]
         IN IF cy_timer.timerId = 0 THEN u
            ELSE al[cy_timer.timerId].rem = 0

\* the delay of the remaining time read from the counter is over
cyhal_join_ready(t, hp, al, h) ==
    IF t[h].start = 0 THEN TRUE
    ELSE IF hp[t[h].start].timerId = 0 THEN TRUE
    ELSE al[hp[t[h].start].timerId].rem = 0

cyhal_timer_join(t, hp, al, h, z) ==
    IF t[h].start = 0 THEN Res(t, hp, al, TIMER_NOT_SET)
    ELSE LET fr == cyhal_timer_free(hp, al, t[h].start)
         IN Res(t, fr.heap, fr.alarms, IFX_SUCCESS)

cyhal_timer_destroy(t, hp, al, h, z) ==
    LET cy_timer == t[h].start
    IN IF cy_timer # 0
       THEN LET fr == cyhal_timer_free(hp, al, cy_timer)
            IN Res([t EXCEPT ![h] = NoTimer], free(fr.heap, cy_timer),
                   fr.alarms, IFX_SUCCESS)
       ELSE Res([t EXCEPT ![h] = NoTimer], hp, al, IFX_SUCCESS)

(***************************************************************************)
(* The Timer API as linked: one backend per build                          *)
(***************************************************************************)
ifx_timer_set(be, t, hp, al, h, us, b, a, f) ==
    CASE be = "posix"    -> rpi_timer_set(t, hp, al, h, us, b, a, f)
      [] be = "freertos" -> freertos_timer_set(t, hp, al, h, us, b, a, f)
      [] be = "cyhal"    -> cyhal_timer_set(t, hp, al, h, us, b, a, f)

ifx_timer_has_elapsed(be, t, hp, al, h, u) ==
    CASE be = "posix"    -> rpi_timer_has_elapsed(t, hp, al, h, u)
      [] be = "freertos" -> freertos_timer_has_elapsed(t, hp, al, h, u)
      [] be = "cyhal"    -> cyhal_timer_has_elapsed(t, hp, al, h, u)

ifx_timer_join(be, t, hp, al, h, z) ==
    CASE be = "posix"    -> rpi_timer_join(t, hp, al, h, z)
      [] be = "freertos" -> freertos_timer_join(t, hp, al, h, z)
      [] be = "cyhal"    -> cyhal_timer_join(t, hp, al, h, z)

\* join returns: its wait (busy-poll, semaphore take, delay) is over
join_ready(be, t, hp, al, h) ==
    CASE be = "posix"    -> rpi_join_ready(t, hp, al, h)
      [] be = "freertos" -> freertos_join_ready(t, hp, al, h)
      [] be = "cyhal"    -> cyhal_join_ready(t, hp, al, h)

ifx_timer_destroy(be, t, hp, al, h, z) ==
    CASE be = "posix"    -> rpi_timer_destroy(t, hp, al, h, z)
      [] be = "freertos" -> freertos_timer_destroy(t, hp, al, h, z)
      [] be = "cyhal"    -> cyhal_timer_destroy(t, hp, al, h, z)

\* block b still has the alarm its set created: it was not deleted or
\* released, and (POSIX ids are reused) it is not another timer's by now
OwnsAlarm(be, hp, al, b) ==
    LET id == hp[b].timerId
    IN IF id = 0 THEN FALSE
       ELSE /\ al[id].st \in {"armed", "idle"}
            /\ be = "posix" => al[id].arg = b

\* the calls of set that can fail after the allocation, per backend
SetFailures(be) ==
    CASE be = "posix"    -> {"none", "sigaction", "arm"}
      [] be = "freertos" -> {"none", "sem", "arm"}
      [] be = "cyhal"    -> {"none", "freq", "configure", "arm"}

(***************************************************************************)
(* Passage of time and expiry notifications                                *)
(***************************************************************************)
\* every running alarm counts down by one quantum
CountDown(al) ==
    [a \in AlarmIds |->
        IF al[a].st = "armed"
        THEN [al[a] EXCEPT !.rem = Max(al[a].rem - Quantum, 0)]
        ELSE al[a]]

\* the age of an armed Timer grows; that of an empty one is not tracked
Older(t, age) ==
    [h \in Handles |-> IF t[h].start = 0 THEN age[h]
                       ELSE Min(age[h] + Quantum, AgeCap)]

\* the notification of alarm a runs: signal handler or timer-task callback
NotifyEnabled(a) ==
    /\ backend \in {"posix", "freertos"}
    /\ backend = "freertos" => wakeup_completes(tmr, heap, alarms[a].arg)

Notify(a) ==
    /\ heap' = IF backend = "posix" THEN rpi_handler(heap, alarms[a].arg)
               ELSE timer_freertos_wakeup(tmr, heap, alarms[a].arg)
    /\ uaf' = (uaf \/ (backend = "posix" /\ ~heap[alarms[a].arg].live))

\* a one-shot alarm expires and notifies
Fire(a) ==
    /\ alarms[a].st = "armed" /\ alarms[a].rem = 0
    /\ NotifyEnabled(a)
    /\ Notify(a)
    /\ alarms' = [alarms EXCEPT ![a].st = "idle"]
    /\ UNCHANGED <<backend, rtos, tmr, ghostVars, i2cVars>>

\* the notification of an alarm that was deleted after it expired
FireStale(a) ==
    /\ alarms[a].st = "zombie"
    /\ NotifyEnabled(a)
    /\ Notify(a)
    /\ alarms' = [alarms EXCEPT ![a] = NoAlarm]
    /\ UNCHANGED <<backend, rtos, tmr, ghostVars, i2cVars>>

(***************************************************************************)
(* A client of the Timer API: set on an empty Timer, and has_elapsed,      *)
(* join, destroy at any time (section 3 of the specification: a Timer is   *)
(* released before it is re-armed).                                        *)
(***************************************************************************)
NoRes == [op |-> "none", h |-> 0, status |-> IFX_SUCCESS, elapsed |-> FALSE,
          age |-> 0, dur |-> 0, armed |-> FALSE, afterSet |-> FALSE,
          afterJoin |-> FALSE, unchanged |-> FALSE, again |-> FALSE,
          isolated |-> TRUE]

\* the call on handle h that led to r left every other Timer, its block and
\* the alarm it owns as they were
Isolated(h, r) ==
    \A o \in Handles \ {h} :
        /\ r.tmr[o] = tmr[o]
        /\ tmr[o].start # 0 =>
              LET data == tmr[o].start
              IN /\ r.heap[data] = heap[data]
                 /\ OwnsAlarm(backend, heap, alarms, data)
                       => r.alarms[heap[data].timerId] = alarms[heap[data].timerId]

TSet(h) ==
    /\ tmr[h].start = 0
    /\ \E us \in Durations, b \in MallocChoices(heap),
          a \in CreateChoices(alarms) :
       \E f \in (IF b # 0 /\ a # 0 THEN SetFailures(backend) ELSE {"none"}) :
         LET r == ifx_timer_set(backend, tmr, heap, alarms, h, us, b, a, f)
             ok == r.status = IFX_SUCCESS
         IN /\ tmr' = r.tmr /\ heap' = r.heap /\ alarms' = r.alarms
            /\ gDur' = IF ok THEN [gDur EXCEPT ![h] = us] ELSE gDur
            /\ gAge' = IF ok THEN [gAge EXCEPT ![h] = 0] ELSE gAge
            /\ gJoined' = IF ok THEN [gJoined EXCEPT ![h] = FALSE] ELSE gJoined
            /\ res' = [NoRes EXCEPT !.op = "set", !.h = h, !.status = r.status,
                                    !.unchanged = (r.tmr = tmr /\ r.heap = heap
                                                   /\ r.alarms = alarms)]
    /\ UNCHANGED <<backend, rtos, uaf, i2cVars>>

THasElapsed(h) ==
    /\ \E u \in BOOLEAN :
         res' = [NoRes EXCEPT
                   !.op = "has_elapsed", !.h = h,
                   !.elapsed = ifx_timer_has_elapsed(backend, tmr, heap, alarms, h, u),
                   !.armed = (tmr[h].start # 0),
                   !.age = gAge[h], !.dur = gDur[h],
                   !.afterSet = (res.op = "set" /\ res.h = h
                                 /\ res.status = IFX_SUCCESS /\ gAge[h] = 0),
                   !.afterJoin = gJoined[h],
                   !.unchanged = TRUE]
    /\ UNCHANGED <<backend, rtos, timerVars, gDur, gAge, gJoined, i2cVars>>

TJoin(h) ==
    /\ join_ready(backend, tmr, heap, alarms, h)
    /\ \E z \in DeleteChoices(tmr, h) :
         LET r == ifx_timer_join(backend, tmr, heap, alarms, h, z)
         IN /\ tmr' = r.tmr /\ heap' = r.heap /\ alarms' = r.alarms
            /\ gJoined' = [gJoined EXCEPT ![h] = (tmr[h].start # 0)]
            /\ res' = [NoRes EXCEPT !.op = "join", !.h = h, !.status = r.status,
                                    !.armed = (tmr[h].start # 0),
                                    !.age = gAge[h], !.dur = gDur[h],
                                    !.afterJoin = gJoined[h],
                                    !.unchanged = (r.tmr = tmr /\ r.heap = heap
                                                   /\ r.alarms = alarms)]
    /\ UNCHANGED <<backend, rtos, uaf, gDur, gAge, i2cVars>>

TDestroy(h) ==
    /\ \E z \in DeleteChoices(tmr, h) :
         LET r == ifx_timer_destroy(backend, tmr, heap, alarms, h, z)
         IN /\ tmr' = r.tmr /\ heap' = r.heap /\ alarms' = r.alarms
            /\ gJoined' = [gJoined EXCEPT ![h] = FALSE]
            /\ gAge' = [gAge EXCEPT ![h] = 0]
            /\ res' = [NoRes EXCEPT !.op = "destroy", !.h = h,
                                    !.armed = (tmr[h].start # 0),
                                    !.again = IF tmr[h].start = 0 THEN FALSE
                                              ELSE ~OwnsAlarm(backend, heap, alarms,
                                                              tmr[h].start),
                                    !.age = gAge[h], !.dur = gDur[h],
                                    !.afterJoin = gJoined[h],
                                    !.unchanged = (r.tmr = tmr /\ r.heap = heap
                                                   /\ r.alarms = alarms)]
    /\ UNCHANGED <<backend, rtos, uaf, gDur, i2cVars>>

TickT ==
    /\ alarms' = CountDown(alarms)
    /\ gAge' = Older(tmr, gAge)
    /\ UNCHANGED <<backend, rtos, tmr, heap, uaf, res, gDur, gJoined, i2cVars>>

(***************************************************************************)
(* Guard-time policy of the transport (i2c-cyhal.c)                        *)
(***************************************************************************)
I2C_CYHAL_PROTOCOLLAYER_ID == 53
I2C_CYHAL_DEFAULT_CLOCK_FREQUENCY_HZ == 400000

\* n: what write() / read() returned; bus: the accesses to the bus handle
\* that the call made, in order
NoCall == [op |-> "none", len |-> 0, g0 |-> FALSE, hadTimer |-> FALSE,
           joined |-> FALSE, buf |-> FALSE, n |-> 0, bus |-> <<>>]
\* what the last call wrote to its output parameters (response_len -1: not
\* written), how many bytes the bus stored in the response buffer, and the
\* value a getter stored in its buffer (-1: not written)
NoOut == [response |-> "unset", response_len |-> -1, filled |-> 0, value |-> -1]
Output(response, response_len, filled) ==
    [response |-> response, response_len |-> response_len, filled |-> filled,
     value |-> -1]

\* the protocol object as the caller provides it, before initialize:
\* zeroed, or with an indeterminate properties pointer; logger is the
\* injected logger: none, one whose calls succeed or one whose calls fail;
\* base is <<>> for _base = NULL and <<object>> for a base layer
RawObject(properties) ==
    [properties |-> properties, layer_id |-> 0, native_instance |-> 0,
     slave_address |-> 0, clock_frequency_hz |-> 0, guard_time_us |-> 0,
     logger |-> "NULL", base |-> <<>>]
\* used: a call was made on the instance since initialize returned;
\* badFree: destroy passed free() a pointer that malloc never returned
NoDone == [any |-> FALSE, g |-> 0, armed |-> FALSE, setFailed |-> FALSE,
           used |-> FALSE, badFree |-> FALSE]

\* i2c_cyhal_await_guard_time can return: no timer pending, or join returns
await_ready(be, t, hp, al) ==
    IF t[GUARD].start = 0 THEN TRUE ELSE join_ready(be, t, hp, al, GUARD)

\* result of the await: the new state, the status and whether join was called
AwaitRes(r, s, joined) ==
    [tmr |-> r.tmr, heap |-> r.heap, alarms |-> r.alarms, status |-> s,
     joined |-> joined]

\* faulty variant: the pending timer is released without being joined
await_guard_time_no_join(be, t, hp, al, z) ==
    AwaitRes(ifx_timer_destroy(be, t, hp, al, GUARD, z), IFX_SUCCESS, FALSE)

\* faulty variant: the pending timer is joined but never released
await_guard_time_no_destroy(be, t, hp, al, z) ==
    IF t[GUARD].start = 0 THEN AwaitRes(Res(t, hp, al, IFX_SUCCESS), IFX_SUCCESS, FALSE)
    ELSE LET j == ifx_timer_join(be, t, hp, al, GUARD, z)
         IN AwaitRes(j, IF j.status = TIMER_NOT_SET THEN IFX_SUCCESS ELSE j.status,
                     TRUE)

\* faulty variant: the status of join is returned as it is
await_guard_time_reports_not_set(be, t, hp, al, z) ==
    LET j == ifx_timer_join(be, t, hp, al, GUARD, z)
        d == ifx_timer_destroy(be, j.tmr, j.heap, j.alarms, GUARD, z)
    IN AwaitRes(d, j.status, TRUE)

i2c_cyhal_await_guard_time(be, t, hp, al, z) ==
    IF t[GUARD].start = 0
    THEN AwaitRes(Res(t, hp, al, IFX_SUCCESS), IFX_SUCCESS, FALSE)
    ELSE
      LET j == ifx_timer_join(be, t, hp, al, GUARD, z)
          d == ifx_timer_destroy(be, j.tmr, j.heap, j.alarms, GUARD, z)
          \* errors because of unset timers are acceptable
          status == IF ifx_error_check(j.status) /\ j.status = TIMER_NOT_SET
                    THEN IFX_SUCCESS ELSE j.status
      IN AwaitRes(d, status, TRUE)

\* faulty variant: a timer is armed even when the guard time is 0
start_guard_time_always_arms(be, t, hp, al, guard_time_us, b, a, f, z) ==
    LET d == ifx_timer_destroy(be, t, hp, al, GUARD, z)
    IN ifx_timer_set(be, d.tmr, d.heap, d.alarms, GUARD, guard_time_us, b, a, f)

i2c_cyhal_start_guard_time(be, t, hp, al, guard_time_us, b, a, f, z) ==
    LET d == ifx_timer_destroy(be, t, hp, al, GUARD, z)
    IN IF guard_time_us > 0
       THEN ifx_timer_set(be, d.tmr, d.heap, d.alarms, GUARD, guard_time_us,
                          b, a, f)
       ELSE Res(d.tmr, d.heap, d.alarms, IFX_SUCCESS)

InitTimers ==
    /\ backend \in Backends
    /\ rtos = NoLogger
    /\ tmr = [h \in Handles |-> NoTimer]
    /\ heap = [b \in Blocks |-> NoBlock]
    /\ alarms = [a \in AlarmIds |-> NoAlarm]
    /\ uaf = FALSE
    /\ res = NoRes
    /\ gDur = [h \in Handles |-> 0]
    /\ gAge = [h \in Handles |-> 0]
    /\ gJoined = [h \in Handles |-> FALSE]

InitT ==
    /\ InitTimers
    /\ props = RawObject("NULL")
    /\ pc = "idle"
    /\ call = NoCall
    /\ ret = IFX_SUCCESS
    /\ done = NoDone
    /\ sinceDone = 0
    /\ gZero = TRUE
    /\ out = NoOut

NextT ==
    \/ TSet(1)
    \/ THasElapsed(1)
    \/ TJoin(1)
    \/ TDestroy(1)
    \/ TickT
    \/ \E a \in AlarmIds : Fire(a)
    \/ \E a \in AlarmIds : FireStale(a)

SpecTimer == InitT /\ [][NextT]_vars

(***************************************************************************)
(* The queued RTOS logger with its producer, its consumer task and destroy *)
(* running as separate tasks                                               *)
(***************************************************************************)
InitLogger == InitT /\ backend = "cyhal"

NextLogger ==
    \/ \E mallocOk \in BOOLEAN, queueOk \in BOOLEAN :
         logger_cyhal_rtos_initialize(mallocOk, queueOk)
    \/ \E threadOk \in BOOLEAN : logger_cyhal_rtos_start(threadOk)
    \/ \E level \in {"below", "at"}, mallocOk \in BOOLEAN :
         logger_cyhal_rtos_log(level, mallocOk)
    \/ logger_cyhal_rtos_log_put
    \/ logger_cyhal_rtos_task_get
    \/ logger_cyhal_rtos_task_log
    \/ logger_cyhal_rtos_destroy

SpecLogger == InitLogger /\ [][NextLogger]_vars

(***************************************************************************)
(* The signal-driven backend with durations up to a second and beyond      *)
(***************************************************************************)
USEC_PER_SEC == NSEC_PER_SEC \div NSEC_PER_USEC
IntervalArgs == {0, Quantum, USEC_PER_SEC - 1, USEC_PER_SEC}

\* ifx_timer_set(timer, us) and, for a timer that was armed, the time until
\* it expires passing at once
TSetUs ==
    /\ tmr[1].start = 0
    /\ \E us \in IntervalArgs, b \in MallocChoices(heap),
          a \in CreateChoices(alarms) :
       \E f \in (IF b # 0 /\ a # 0 THEN SetFailures(backend) ELSE {"none"}) :
         LET r == ifx_timer_set(backend, tmr, heap, alarms, 1, us, b, a, f)
             ok == r.status = IFX_SUCCESS
         IN /\ tmr' = r.tmr /\ heap' = r.heap /\ alarms' = r.alarms
            /\ gDur' = IF ok THEN [gDur EXCEPT ![1] = us] ELSE gDur
            /\ gAge' = IF ok THEN [gAge EXCEPT ![1] = 0] ELSE gAge
            /\ gJoined' = IF ok THEN [gJoined EXCEPT ![1] = FALSE] ELSE gJoined
            /\ res' = [NoRes EXCEPT !.op = "set", !.h = 1, !.status = r.status,
                                    !.unchanged = (r.tmr = tmr /\ r.heap = heap
                                                   /\ r.alarms = alarms)]
    /\ UNCHANGED <<backend, rtos, uaf, i2cVars>>

\* the time a pending timer still has to run passes
Elapse ==
    /\ \E a \in AlarmIds : alarms[a].st = "armed" /\ alarms[a].rem > 0
    /\ alarms' = [a \in AlarmIds |->
                    IF alarms[a].st = "armed" THEN [alarms[a] EXCEPT !.rem = 0]
                    ELSE alarms[a]]
    /\ gAge' = [h \in Handles |-> IF tmr[h].start # 0 THEN gDur[h] ELSE gAge[h]]
    /\ UNCHANGED <<backend, rtos, tmr, heap, uaf, res, gDur, gJoined, i2cVars>>

InitInterval == InitT /\ backend = "posix"

NextInterval ==
    \/ TSetUs
    \/ THasElapsed(1)
    \/ TJoin(1)
    \/ TDestroy(1)
    \/ Elapse
    \/ \E a \in AlarmIds : Fire(a)

SpecInterval == InitInterval /\ [][NextInterval]_vars

(***************************************************************************)
(* The scheduler-integrated backend with the timer task running between    *)
(* the statements of set: xTimerStart (line 104) queues the start, and the *)
(* handle is written afterwards (lines 114-115).                           *)
(***************************************************************************)
\* set has started the timer and not yet stored the state in the handle
Setting == res.op = "setting"

\* ifx_timer_set up to and including xTimerStart
SSetStart ==
    /\ ~Setting /\ tmr[1].start = 0
    /\ \E us \in Durations, b \in MallocChoices(heap),
          a \in CreateChoices(alarms) :
       \E f \in (IF b # 0 /\ a # 0 THEN SetFailures(backend) ELSE {"none"}) :
         LET r == freertos_timer_set(tmr, heap, alarms, 1, us, b, a, f)
             ok == r.status = IFX_SUCCESS
         IN /\ heap' = r.heap /\ alarms' = r.alarms
            /\ gDur' = IF ok THEN [gDur EXCEPT ![1] = us] ELSE gDur
            /\ gAge' = IF ok THEN [gAge EXCEPT ![1] = 0] ELSE gAge
            /\ gJoined' = IF ok THEN [gJoined EXCEPT ![1] = FALSE] ELSE gJoined
            /\ res' = IF ok THEN [NoRes EXCEPT !.op = "setting", !.h = 1]
                      ELSE [NoRes EXCEPT !.op = "set", !.h = 1,
                                         !.status = r.status]
    /\ UNCHANGED <<backend, rtos, tmr, uaf, i2cVars>>

\* timer->_start = data; timer->_duration = ms; return IFX_SUCCESS
SSetStore ==
    /\ Setting
    /\ LET data == CHOOSE b \in Blocks : heap[b].live
       IN tmr' = [tmr EXCEPT ![1] = [start |-> data,
                                     duration |-> CeilMs(gDur[1])]]
    /\ res' = [NoRes EXCEPT !.op = "set", !.h = 1]
    /\ UNCHANGED <<backend, rtos, heap, alarms, uaf, gDur, gAge, gJoined, i2cVars>>

\* the time of the started timer runs whether or not set has returned
STick ==
    /\ alarms' = CountDown(alarms)
    /\ gAge' = [gAge EXCEPT ![1] = Min(gAge[1] + Quantum, AgeCap)]
    /\ UNCHANGED <<backend, rtos, tmr, heap, uaf, res, gDur, gJoined, i2cVars>>

InitSched == InitT /\ backend = "freertos"

NextSched ==
    \/ SSetStart
    \/ SSetStore
    \/ ~Setting /\ THasElapsed(1)
    \/ ~Setting /\ TJoin(1)
    \/ ~Setting /\ TDestroy(1)
    \/ STick
    \/ \E a \in AlarmIds : Fire(a)

SpecSched == InitSched /\ [][NextSched]_vars

(***************************************************************************)
(* The guard-await step on a Timer in any state the Timer API can leave    *)
(***************************************************************************)
TAwait ==
    /\ await_ready(backend, tmr, heap, alarms)
    /\ \E z \in DeleteChoices(tmr, GUARD) :
         LET r == i2c_cyhal_await_guard_time(backend, tmr, heap, alarms, z)
         IN /\ tmr' = r.tmr /\ heap' = r.heap /\ alarms' = r.alarms
            /\ gJoined' = [gJoined EXCEPT ![GUARD] = FALSE]
            /\ gAge' = [gAge EXCEPT ![GUARD] = 0]
            /\ res' = [NoRes EXCEPT !.op = "await", !.h = GUARD,
                                    !.status = r.status,
                                    !.armed = (tmr[GUARD].start # 0),
                                    !.age = gAge[GUARD], !.dur = gDur[GUARD],
                                    !.afterJoin = gJoined[GUARD],
                                    !.unchanged = (r.tmr = tmr /\ r.heap = heap
                                                   /\ r.alarms = alarms)]
    /\ UNCHANGED <<backend, rtos, uaf, gDur, i2cVars>>

NextAwait ==
    \/ TSet(1)
    \/ THasElapsed(1)
    \/ TJoin(1)
    \/ TDestroy(1)
    \/ TAwait
    \/ TickT
    \/ \E a \in AlarmIds : Fire(a)
    \/ \E a \in AlarmIds : FireStale(a)

SpecAwait == InitT /\ [][NextAwait]_vars

(***************************************************************************)
(* Two Timers of one process, used in any interleaving.  Of each call only *)
(* the handle, the status and the effect on the other Timer are recorded.  *)
(***************************************************************************)
PairStep(op, h, r) ==
    /\ tmr' = r.tmr /\ heap' = r.heap /\ alarms' = r.alarms
    /\ res' = [NoRes EXCEPT !.op = op, !.h = h, !.status = r.status,
                            !.isolated = Isolated(h, r)]
    /\ UNCHANGED <<backend, rtos, uaf, gDur, gAge, gJoined, i2cVars>>

PSet(h) ==
    /\ tmr[h].start = 0
    /\ \E us \in Durations, b \in MallocChoices(heap),
          a \in CreateChoices(alarms) :
       \E f \in (IF b # 0 /\ a # 0 THEN SetFailures(backend) ELSE {"none"}) :
         PairStep("set", h, ifx_timer_set(backend, tmr, heap, alarms, h, us, b, a, f))

PHasElapsed(h) ==
    /\ \E u \in BOOLEAN :
         res' = [NoRes EXCEPT
                   !.op = "has_elapsed", !.h = h,
                   !.elapsed = ifx_timer_has_elapsed(backend, tmr, heap, alarms, h, u)]
    /\ UNCHANGED <<backend, rtos, timerVars, gDur, gAge, gJoined, i2cVars>>

PJoin(h) ==
    /\ join_ready(backend, tmr, heap, alarms, h)
    /\ \E z \in DeleteChoices(tmr, h) :
         PairStep("join", h, ifx_timer_join(backend, tmr, heap, alarms, h, z))

PDestroy(h) ==
    /\ \E z \in DeleteChoices(tmr, h) :
         PairStep("destroy", h, ifx_timer_destroy(backend, tmr, heap, alarms, h, z))

TickP ==
    /\ alarms' = CountDown(alarms)
    /\ UNCHANGED <<backend, rtos, tmr, heap, uaf, ghostVars, i2cVars>>

NextPair ==
    \/ \E h \in Handles : PSet(h)
    \/ \E h \in Handles : PHasElapsed(h)
    \/ \E h \in Handles : PJoin(h)
    \/ \E h \in Handles : PDestroy(h)
    \/ TickP
    \/ \E a \in AlarmIds : Fire(a)
    \/ \E a \in AlarmIds : FireStale(a)

SpecPair == InitT /\ [][NextPair]_vars

(***************************************************************************)
(* Transport callbacks (i2c-cyhal.c).  A call runs in steps so that time   *)
(* can pass while it waits:  idle -> await -> bus -> arm -> idle.          *)
(***************************************************************************)
Lens == {0, 1, 2}
Pointers == {"NULL", "valid"}

\* a size_t argument: n bytes, or (over # "no") a value that no 32-bit word
\* holds, of which SIZE_MAX is the "length unknown" sentinel of the framework
SizeT(n) == [n |-> n, over |-> "no"]
SIZE_ABOVE_UINT32 == [n |-> 0, over |-> "above_uint32"]
IFX_PROTOCOL_RECEIVE_LEN_UNKOWN == [n |-> 0, over |-> "SIZE_MAX"]
LenExceedsUint32(len) == len.over # "no"

I2C_ERROR(function, reason) == IFX_ERROR("LIBI2CCYHAL", function, reason)

\* garbage is what malloc left in the guard_time_us field
i2c_cyhal_initialize(self, raw, native_instance, slave_address, mallocOk, garbage) ==
    IF self = "NULL" \/ native_instance = -1
    THEN [status |-> I2C_ERROR("IFX_PROTOCOL_LAYER_INITIALIZE", "IFX_ILLEGAL_ARGUMENT"),
          props |-> raw]
    ELSE IF ~mallocOk
    THEN [status |-> I2C_ERROR("IFX_PROTOCOL_LAYER_INITIALIZE", "IFX_OUT_OF_MEMORY"),
          props |-> [RawObject("NULL") EXCEPT
                       !.layer_id = I2C_CYHAL_PROTOCOLLAYER_ID]]
    ELSE [status |-> IFX_SUCCESS,
          props |-> [properties |-> "heap",
                     layer_id |-> I2C_CYHAL_PROTOCOLLAYER_ID,
                     native_instance |-> native_instance,
                     slave_address |-> slave_address,
                     clock_frequency_hz |-> I2C_CYHAL_DEFAULT_CLOCK_FREQUENCY_HZ,
                     guard_time_us |-> garbage,
                     logger |-> "NULL", base |-> <<>>]]

\* faulty variant: only the layer the call was made on is looked at
get_protocol_properties_ignores_base(p) ==
    IF p.layer_id # I2C_CYHAL_PROTOCOLLAYER_ID
    THEN I2C_ERROR("IFX_I2C_CYHAL_GET_PROPERTIES", "IFX_PROTOCOL_STACK_INVALID")
    ELSE IF p.properties = "NULL"
    THEN I2C_ERROR("IFX_I2C_CYHAL_GET_PROPERTIES", "IFX_PROTOCOL_STACK_INVALID")
    ELSE IFX_SUCCESS

\* faulty variant: a layer without state passes the lookup
get_protocol_properties_no_state_check(p) ==
    IF p.layer_id # I2C_CYHAL_PROTOCOLLAYER_ID
    THEN I2C_ERROR("IFX_I2C_CYHAL_GET_PROPERTIES", "IFX_PROTOCOL_STACK_INVALID")
    ELSE IFX_SUCCESS

\* the status of the lookup on layer p (self and properties_buffer not NULL)
RECURSIVE i2c_cyhal_get_protocol_properties(_)
i2c_cyhal_get_protocol_properties(p) ==
    IF p.layer_id # I2C_CYHAL_PROTOCOLLAYER_ID
    THEN IF p.base = <<>>
         THEN I2C_ERROR("IFX_I2C_CYHAL_GET_PROPERTIES", "IFX_PROTOCOL_STACK_INVALID")
         ELSE i2c_cyhal_get_protocol_properties(p.base[1])
    ELSE IF p.properties = "NULL"
    THEN I2C_ERROR("IFX_I2C_CYHAL_GET_PROPERTIES", "IFX_PROTOCOL_STACK_INVALID")
    ELSE IFX_SUCCESS

\* what the lookup on layer p stores to *properties_buffer: the state of
\* the layer that many _base links below p, or nothing (-1)
RECURSIVE properties_buffer(_)
properties_buffer(p) ==
    IF p.layer_id # I2C_CYHAL_PROTOCOLLAYER_ID
    THEN IF p.base = <<>> THEN -1
         ELSE LET below == properties_buffer(p.base[1])
              IN IF below = -1 THEN -1 ELSE below + 1
    ELSE IF p.properties = "NULL" THEN -1
    ELSE 0

\* faulty variant: a log statement that fails replaces the status
checked_log_escalates(logger, s) ==
    IF logger = "fails"
    THEN IFX_ERROR("LIB_LOGGER", "IFX_LOGGER_LOG", "IFX_UNSPECIFIED_ERROR")
    ELSE s

\* the status a call returns with s computed, after its CHECKED_LOG
\* statements ran with the given logger (or were compiled out)
CHECKED_LOG(logger, s) ==
    s

\* the call returns with status s before any bus access
ReturnEarly(s) ==
    /\ ret' = CHECKED_LOG(props.logger, s)
    /\ pc' = "idle"
    /\ call' = NoCall

\* the call returns with status s after it attempted its bus operation
ReturnDone(s, t, bus) ==
    /\ ret' = CHECKED_LOG(props.logger, s)
    /\ pc' = "idle"
    /\ call' = [NoCall EXCEPT !.bus = bus]
    /\ done' = [done EXCEPT !.any = TRUE, !.g = props.guard_time_us,
                            !.armed = (t[GUARD].start # 0),
                            !.setFailed = (s.function = "IFX_TIMER_SET")]
    /\ sinceDone' = 0

NewCall(op, len) ==
    [NoCall EXCEPT !.op = op, !.len = len,
                   !.g0 = (props.guard_time_us = 0),
                   !.hadTimer = (tmr[GUARD].start # 0)]

\* faulty variant: an empty buffer is not rejected
transmit_accepts_empty(self, data, data_len) ==
    /\ pc = "idle"
    /\ done' = [done EXCEPT !.used = TRUE]
    /\ out' = NoOut
    /\ IF self = "NULL" \/ data = "NULL" \/ LenExceedsUint32(data_len)
       THEN ReturnEarly(I2C_ERROR("IFX_PROTOCOL_TRANSMIT", "IFX_ILLEGAL_ARGUMENT"))
       ELSE IF ifx_error_check(i2c_cyhal_get_protocol_properties(props))
       THEN ReturnEarly(i2c_cyhal_get_protocol_properties(props))
       ELSE /\ pc' = "await"
            /\ call' = NewCall("transmit", data_len.n)
            /\ UNCHANGED ret
    /\ UNCHANGED <<backend, rtos, timerVars, ghostVars, props, sinceDone, gZero>>

\* i2c_cyhal_transmit, up to the guard-time await
i2c_cyhal_transmit(self, data, data_len) ==
    /\ pc = "idle"
    /\ done' = [done EXCEPT !.used = TRUE]
    /\ out' = NoOut
    /\ IF self = "NULL" \/ data = "NULL"
          \/ data_len = SizeT(0) \/ LenExceedsUint32(data_len)
       THEN ReturnEarly(I2C_ERROR("IFX_PROTOCOL_TRANSMIT", "IFX_ILLEGAL_ARGUMENT"))
       ELSE IF ifx_error_check(i2c_cyhal_get_protocol_properties(props))
       THEN ReturnEarly(i2c_cyhal_get_protocol_properties(props))
       ELSE /\ pc' = "await"
            /\ call' = NewCall("transmit", data_len.n)
            /\ UNCHANGED ret
    /\ UNCHANGED <<backend, rtos, timerVars, ghostVars, props, sinceDone, gZero>>

\* faulty variant: a zero expected_len is not rejected
receive_accepts_zero_len(self, expected_len, response, response_len) ==
    /\ pc = "idle"
    /\ done' = [done EXCEPT !.used = TRUE]
    /\ out' = NoOut
    /\ IF self = "NULL" \/ LenExceedsUint32(expected_len)
          \/ expected_len = IFX_PROTOCOL_RECEIVE_LEN_UNKOWN
          \/ response = "NULL" \/ response_len = "NULL"
       THEN ReturnEarly(I2C_ERROR("IFX_PROTOCOL_RECEIVE", "IFX_ILLEGAL_ARGUMENT"))
       ELSE IF ifx_error_check(i2c_cyhal_get_protocol_properties(props))
       THEN ReturnEarly(i2c_cyhal_get_protocol_properties(props))
       ELSE /\ pc' = "await"
            /\ call' = NewCall("receive", expected_len.n)
            /\ UNCHANGED ret
    /\ UNCHANGED <<backend, rtos, timerVars, ghostVars, props, sinceDone, gZero>>

\* i2c_cyhal_receive, up to the guard-time await
i2c_cyhal_receive(self, expected_len, response, response_len) ==
    /\ pc = "idle"
    /\ done' = [done EXCEPT !.used = TRUE]
    /\ out' = NoOut
    /\ IF self = "NULL"
          \/ expected_len = SizeT(0) \/ LenExceedsUint32(expected_len)
          \/ expected_len = IFX_PROTOCOL_RECEIVE_LEN_UNKOWN
          \/ response = "NULL" \/ response_len = "NULL"
       THEN ReturnEarly(I2C_ERROR("IFX_PROTOCOL_RECEIVE", "IFX_ILLEGAL_ARGUMENT"))
       ELSE IF ifx_error_check(i2c_cyhal_get_protocol_properties(props))
       THEN ReturnEarly(i2c_cyhal_get_protocol_properties(props))
       ELSE /\ pc' = "await"
            /\ call' = NewCall("receive", expected_len.n)
            /\ UNCHANGED ret
    /\ UNCHANGED <<backend, rtos, timerVars, ghostVars, props, sinceDone, gZero>>

\* the call awaits the guard time; receive then allocates its buffer
AwaitGuard ==
    /\ pc = "await"
    /\ await_ready(backend, tmr, heap, alarms)
    /\ \E z \in DeleteChoices(tmr, GUARD),
          mallocOk \in (IF call.op = "receive" THEN BOOLEAN ELSE {TRUE}) :
         LET r == i2c_cyhal_await_guard_time(backend, tmr, heap, alarms, z)
         IN /\ tmr' = r.tmr /\ heap' = r.heap /\ alarms' = r.alarms
            /\ IF ifx_error_check(r.status)
               THEN ReturnEarly(r.status) /\ UNCHANGED out
               ELSE IF call.op = "receive" /\ ~mallocOk
               THEN /\ ReturnEarly(I2C_ERROR("IFX_PROTOCOL_RECEIVE", "IFX_OUT_OF_MEMORY"))
                    /\ out' = [out EXCEPT !.response = "NULL"]
               ELSE /\ pc' = "bus"
                    /\ call' = [call EXCEPT !.joined = r.joined,
                                            !.buf = (call.op = "receive")]
                    /\ out' = [out EXCEPT !.response =
                                 IF call.op = "receive" THEN "buf" ELSE @]
                    /\ UNCHANGED ret
    /\ UNCHANGED <<backend, rtos, uaf, ghostVars, props, done, sinceDone, gZero>>

\* one access to the bus handle: ioctl(I2C_SLAVE) with the address passed and
\* whether it succeeded, or write() / read() with the length passed and the
\* byte count returned
BusSelect(address, ok) == [op |-> "select", arg |-> address, result |-> IF ok THEN 0 ELSE -1]
BusTransfer(op, len, n) == [op |-> op, arg |-> len, result |-> n]

\* faulty variant: the device-select uses the address given to initialize
bus_accesses_default_address(p, op, len, ioctlOk, n) ==
    IF ~ioctlOk THEN <<BusSelect(24, FALSE)>>
    ELSE <<BusSelect(24, TRUE),
           BusTransfer(IF op = "transmit" THEN "write" ELSE "read", len, n)>>

\* the accesses of one transmit / receive: the device-select with the cached
\* address and, when it succeeded, one write / read
bus_accesses(p, op, len, ioctlOk, n) ==
    IF ~ioctlOk THEN <<BusSelect(p.slave_address, FALSE)>>
    ELSE <<BusSelect(p.slave_address, TRUE),
           BusTransfer(IF op = "transmit" THEN "write" ELSE "read", len, n)>>

\* faulty variant: a write that transferred fewer bytes passes
write_complete_if_no_error(n, data_len) ==
    n # -1

\* write(...) != data_len
write_complete(n, data_len) ==
    n = data_len

\* faulty variant: *response_len keeps the value of the comparison with -1
receive_outputs_keep_comparison(expected_len, n) ==
    Output("buf", 0, n)

\* the outputs of receive after a read that returned n # -1
receive_outputs(expected_len, n) ==
    Output("buf", expected_len, n)

\* device-select (ioctl I2C_SLAVE) and write / read on the bus handle; the
\* read's result is only compared with -1 (the comparison, not the byte
\* count, is what the if statement assigns to *response_len)
BusAccess ==
    /\ pc = "bus"
    /\ \E ioctlOk \in BOOLEAN, n \in -1..call.len :
         LET log == bus_accesses(props, call.op, call.len, ioctlOk, n)
         IN IF ~ioctlOk
            THEN /\ ReturnDone(I2C_ERROR("IFX_PROTOCOL_TRANSMIT", "IFX_UNSPECIFIED_ERROR"),
                               tmr, log)
                 /\ UNCHANGED out
            ELSE IF call.op = "transmit" /\ ~write_complete(n, call.len)
            THEN /\ ReturnDone(I2C_ERROR("IFX_PROTOCOL_TRANSMIT", "IFX_UNSPECIFIED_ERROR"),
                               tmr, log)
                 /\ UNCHANGED out
            ELSE IF call.op = "receive" /\ n = -1
            THEN /\ ReturnDone(I2C_ERROR("IFX_PROTOCOL_TRANSMIT", "IFX_UNSPECIFIED_ERROR"),
                               tmr, log)
                 /\ out' = Output("NULL", 0, 0)
            ELSE /\ pc' = "arm"
                 /\ call' = [call EXCEPT !.n = n, !.bus = log]
                 /\ out' = IF call.op = "receive"
                           THEN receive_outputs(call.len, n) ELSE out
                 /\ UNCHANGED <<ret, done, sinceDone>>
    /\ UNCHANGED <<backend, rtos, timerVars, ghostVars, props, gZero>>

\* faulty variant: the buffer is handed to the caller although arming failed
receive_result_keeps_buffer(o, status) ==
    o

\* the outputs of a receive whose read did not return -1, once the guard
\* timer has been started with the given status
receive_result(o, status) ==
    IF ifx_error_check(status) THEN Output("NULL", 0, 0) ELSE o

\* i2c_cyhal_start_guard_time and the return of the call
ArmGuard ==
    /\ pc = "arm"
    /\ \E z \in DeleteChoices(tmr, GUARD) :
         LET d == ifx_timer_destroy(backend, tmr, heap, alarms, GUARD, z)
             armed == props.guard_time_us > 0
         IN \E b \in MallocChoices(d.heap), a \in CreateChoices(d.alarms),
               f \in (IF armed THEN SetFailures(backend) ELSE {"none"}) :
              LET r == i2c_cyhal_start_guard_time(backend, tmr, heap, alarms,
                                                  props.guard_time_us, b, a, f, z)
              IN /\ tmr' = r.tmr /\ heap' = r.heap /\ alarms' = r.alarms
                 /\ ReturnDone(r.status, r.tmr, call.bus)
                 /\ out' = IF call.op = "receive"
                           THEN receive_result(out, r.status) ELSE out
    /\ UNCHANGED <<backend, rtos, uaf, ghostVars, props, gZero>>

\* faulty variant: the outputs are left as the caller passed them
activate_keeps_outputs(self, response_buffer, response_len) ==
    /\ pc = "idle"
    /\ ret' = IF self = "NULL"
              THEN I2C_ERROR("IFX_PROTOCOL_ACTIVATE", "IFX_ILLEGAL_ARGUMENT")
              ELSE IFX_SUCCESS
    /\ out' = NoOut
    /\ done' = [done EXCEPT !.used = TRUE]
    /\ UNCHANGED <<backend, rtos, timerVars, ghostVars, props, pc, call, sinceDone, gZero>>

i2c_cyhal_activate(self, response_buffer, response_len) ==
    /\ pc = "idle"
    /\ IF self = "NULL"
       THEN /\ ret' = I2C_ERROR("IFX_PROTOCOL_ACTIVATE", "IFX_ILLEGAL_ARGUMENT")
            /\ out' = NoOut
       ELSE /\ ret' = IFX_SUCCESS
            /\ out' = Output(IF response_buffer # "NULL" THEN "NULL" ELSE "unset",
                             IF response_len # "NULL" THEN 0 ELSE -1, 0)
    /\ done' = [done EXCEPT !.used = TRUE]
    /\ UNCHANGED <<backend, rtos, timerVars, ghostVars, props, pc, call, sinceDone, gZero>>

\* i2c_cyhal_destroy; freeing a pointer that malloc never returned is a fault
i2c_cyhal_destroy(self) ==
    /\ pc = "idle"
    /\ IF self = "NULL" \/ props.properties = "NULL"
       THEN UNCHANGED <<timerVars, props, done>>
       ELSE \E z \in DeleteChoices(tmr, GUARD) :
              LET d == IF ifx_error_check(i2c_cyhal_get_protocol_properties(props))
                       THEN Res(tmr, heap, alarms, IFX_SUCCESS)
                       ELSE ifx_timer_destroy(backend, tmr, heap, alarms, GUARD, z)
              IN /\ tmr' = d.tmr /\ heap' = d.heap /\ alarms' = d.alarms
                 /\ uaf' = (uaf \/ props.properties # "heap")
                 /\ done' = [done EXCEPT
                               !.badFree = (@ \/ props.properties # "heap")]
                 /\ props' = [RawObject("NULL") EXCEPT !.layer_id = props.layer_id,
                                                       !.logger = props.logger,
                                                       !.base = props.base]
    /\ UNCHANGED <<backend, rtos, ghostVars, pc, call, ret, out, sinceDone, gZero>>

(***************************************************************************)
(* The accessors of the cached properties (ifx_i2c_get_... / _set_...).    *)
(***************************************************************************)
PROTOCOL_ERROR(function, reason) == IFX_ERROR("LIB_PROTOCOL", function, reason)

\* an accessor returns status s, having stored value in its buffer (-1: not)
AccessorReturn(s, value) ==
    /\ ret' = s
    /\ out' = [NoOut EXCEPT !.value = value]
    /\ done' = [done EXCEPT !.used = TRUE]

ifx_i2c_get_clock_frequency(self, frequency_hz_buffer) ==
    /\ pc = "idle"
    /\ IF self = "NULL" \/ frequency_hz_buffer = "NULL"
       THEN AccessorReturn(PROTOCOL_ERROR("IFX_I2C_GET_CLOCK_FREQUENCY",
                                          "IFX_ILLEGAL_ARGUMENT"), -1)
       ELSE IF ifx_error_check(i2c_cyhal_get_protocol_properties(props))
       THEN AccessorReturn(i2c_cyhal_get_protocol_properties(props), -1)
       ELSE AccessorReturn(IFX_SUCCESS, props.clock_frequency_hz)
    /\ UNCHANGED <<backend, rtos, timerVars, ghostVars, props, pc, call, sinceDone, gZero>>

\* faulty variant: a frequency of 0 Hz is cached like any other
set_clock_frequency_accepts_zero(self, frequency_hz) ==
    /\ pc = "idle"
    /\ IF self = "NULL"
       THEN /\ AccessorReturn(PROTOCOL_ERROR("IFX_I2C_SET_CLOCK_FREQUENCY",
                                             "IFX_ILLEGAL_ARGUMENT"), -1)
            /\ UNCHANGED props
       ELSE IF ifx_error_check(i2c_cyhal_get_protocol_properties(props))
       THEN /\ AccessorReturn(i2c_cyhal_get_protocol_properties(props), -1)
            /\ UNCHANGED props
       ELSE /\ props' = [props EXCEPT !.clock_frequency_hz = frequency_hz]
            /\ AccessorReturn(IFX_SUCCESS, -1)
    /\ UNCHANGED <<backend, rtos, timerVars, ghostVars, pc, call, sinceDone, gZero>>

ifx_i2c_set_clock_frequency(self, frequency_hz) ==
    /\ pc = "idle"
    /\ IF self = "NULL" \/ frequency_hz = 0
       THEN /\ AccessorReturn(PROTOCOL_ERROR("IFX_I2C_SET_CLOCK_FREQUENCY",
                                             "IFX_ILLEGAL_ARGUMENT"), -1)
            /\ UNCHANGED props
       ELSE IF ifx_error_check(i2c_cyhal_get_protocol_properties(props))
       THEN /\ AccessorReturn(i2c_cyhal_get_protocol_properties(props), -1)
            /\ UNCHANGED props
       ELSE /\ props' = [props EXCEPT !.clock_frequency_hz = frequency_hz]
            /\ AccessorReturn(IFX_SUCCESS, -1)
    /\ UNCHANGED <<backend, rtos, timerVars, ghostVars, pc, call, sinceDone, gZero>>

\* faulty variant: the clock frequency is stored in the caller's buffer
get_slave_address_reads_clock(self, address_buffer) ==
    /\ pc = "idle"
    /\ IF self = "NULL" \/ address_buffer = "NULL"
       THEN AccessorReturn(PROTOCOL_ERROR("IFX_I2C_GET_SLAVE_ADDR",
                                          "IFX_ILLEGAL_ARGUMENT"), -1)
       ELSE IF ifx_error_check(i2c_cyhal_get_protocol_properties(props))
       THEN AccessorReturn(i2c_cyhal_get_protocol_properties(props), -1)
       ELSE AccessorReturn(IFX_SUCCESS, props.clock_frequency_hz)
    /\ UNCHANGED <<backend, rtos, timerVars, ghostVars, props, pc, call, sinceDone, gZero>>

ifx_i2c_get_slave_address(self, address_buffer) ==
    /\ pc = "idle"
    /\ IF self = "NULL" \/ address_buffer = "NULL"
       THEN AccessorReturn(PROTOCOL_ERROR("IFX_I2C_GET_SLAVE_ADDR",
                                          "IFX_ILLEGAL_ARGUMENT"), -1)
       ELSE IF ifx_error_check(i2c_cyhal_get_protocol_properties(props))
       THEN AccessorReturn(i2c_cyhal_get_protocol_properties(props), -1)
       ELSE AccessorReturn(IFX_SUCCESS, props.slave_address)
    /\ UNCHANGED <<backend, rtos, timerVars, ghostVars, props, pc, call, sinceDone, gZero>>

\* faulty variant: an address above 0xff is cut to its low byte and cached
set_slave_address_masks(self, address) ==
    /\ pc = "idle"
    /\ IF self = "NULL" \/ address = 0
       THEN /\ AccessorReturn(PROTOCOL_ERROR("IFX_I2C_SET_SLAVE_ADDR",
                                             "IFX_ILLEGAL_ARGUMENT"), -1)
            /\ UNCHANGED props
       ELSE IF ifx_error_check(i2c_cyhal_get_protocol_properties(props))
       THEN /\ AccessorReturn(i2c_cyhal_get_protocol_properties(props), -1)
            /\ UNCHANGED props
       ELSE /\ props' = [props EXCEPT !.slave_address = address % 256]
            /\ AccessorReturn(IFX_SUCCESS, -1)
    /\ UNCHANGED <<backend, rtos, timerVars, ghostVars, pc, call, sinceDone, gZero>>

\* address is a uint16_t; the cached field keeps address & 0xff
ifx_i2c_set_slave_address(self, address) ==
    /\ pc = "idle"
    /\ IF self = "NULL" \/ address = 0 \/ address > 255
       THEN /\ AccessorReturn(PROTOCOL_ERROR("IFX_I2C_SET_SLAVE_ADDR",
                                             "IFX_ILLEGAL_ARGUMENT"), -1)
            /\ UNCHANGED props
       ELSE IF ifx_error_check(i2c_cyhal_get_protocol_properties(props))
       THEN /\ AccessorReturn(i2c_cyhal_get_protocol_properties(props), -1)
            /\ UNCHANGED props
       ELSE /\ props' = [props EXCEPT !.slave_address = address % 256]
            /\ AccessorReturn(IFX_SUCCESS, -1)
    /\ UNCHANGED <<backend, rtos, timerVars, ghostVars, pc, call, sinceDone, gZero>>

ifx_i2c_get_guard_time(self, guard_time_us_buffer) ==
    /\ pc = "idle"
    /\ IF self = "NULL" \/ guard_time_us_buffer = "NULL"
       THEN AccessorReturn(PROTOCOL_ERROR("IFX_I2C_GET_GUARD_TIME",
                                          "IFX_ILLEGAL_ARGUMENT"), -1)
       ELSE IF ifx_error_check(i2c_cyhal_get_protocol_properties(props))
       THEN AccessorReturn(i2c_cyhal_get_protocol_properties(props), -1)
       ELSE AccessorReturn(IFX_SUCCESS, props.guard_time_us)
    /\ UNCHANGED <<backend, rtos, timerVars, ghostVars, props, pc, call, sinceDone, gZero>>

ifx_i2c_set_guard_time(self, guard_time_us) ==
    /\ pc = "idle"
    /\ IF self = "NULL"
       THEN /\ ret' = IFX_ERROR("LIB_PROTOCOL", "IFX_I2C_SET_GUARD_TIME",
                                "IFX_ILLEGAL_ARGUMENT")
            /\ UNCHANGED <<props, gZero>>
       ELSE IF ifx_error_check(i2c_cyhal_get_protocol_properties(props))
       THEN /\ ret' = i2c_cyhal_get_protocol_properties(props)
            /\ UNCHANGED <<props, gZero>>
       ELSE /\ props' = [props EXCEPT !.guard_time_us = guard_time_us]
            /\ gZero' = (gZero /\ guard_time_us = 0)
            /\ ret' = IFX_SUCCESS
    /\ out' = NoOut
    /\ done' = [done EXCEPT !.used = TRUE]
    /\ UNCHANGED <<backend, rtos, timerVars, ghostVars, pc, call, sinceDone>>

Tick ==
    /\ alarms' = CountDown(alarms)
    /\ sinceDone' = Min(sinceDone + Quantum, AgeCap)
    /\ UNCHANGED <<backend, rtos, tmr, heap, uaf, ghostVars, props, pc, call, ret,
                   out, done, gZero>>

(***************************************************************************)
(* The transport instance after the caller's i2c_cyhal_initialize, whether *)
(* it succeeded or not.  On success the guard time field of the malloc'ed  *)
(* properties is not written by initialize.                                *)
(***************************************************************************)
NativeInstances == {-1, 3}
SlaveAddresses == {24}

\* the argument lists the caller passes: valid ones, and lists with one
\* argument that the callback has to reject
TransmitArgs ==
    {<<"valid", "valid", SizeT(n)>> : n \in Lens}
        \cup {<<"NULL", "valid", SizeT(1)>>, <<"valid", "NULL", SizeT(1)>>,
              <<"valid", "valid", SIZE_ABOVE_UINT32>>,
              <<"valid", "valid", IFX_PROTOCOL_RECEIVE_LEN_UNKOWN>>}
ReceiveArgs ==
    {<<"valid", SizeT(n), "valid", "valid">> : n \in Lens}
        \cup {<<"NULL", SizeT(1), "valid", "valid">>,
              <<"valid", SIZE_ABOVE_UINT32, "valid", "valid">>,
              <<"valid", IFX_PROTOCOL_RECEIVE_LEN_UNKOWN, "valid", "valid">>,
              <<"valid", SizeT(1), "NULL", "valid">>,
              <<"valid", SizeT(1), "valid", "NULL">>}
ActivateArgs ==
    {<<"valid", p, q>> : p \in Pointers, q \in Pointers}
        \cup {<<"NULL", "valid", "valid">>}

Init ==
    /\ InitTimers
    /\ \E self \in Pointers, properties \in {"NULL", "wild"},
          native_instance \in NativeInstances, slave_address \in SlaveAddresses,
          mallocOk \in BOOLEAN, g \in Durations :
         LET r == i2c_cyhal_initialize(self, RawObject(properties), native_instance,
                                       slave_address, mallocOk, g)
         IN /\ props = r.props
            /\ ret = r.status
            /\ gZero = (r.props.guard_time_us = 0)
    /\ pc = "idle"
    /\ call = NoCall
    /\ out = NoOut
    /\ done = NoDone
    /\ sinceDone = 0

Next ==
    \/ \E a \in TransmitArgs : i2c_cyhal_transmit(a[1], a[2], a[3])
    \/ \E a \in ReceiveArgs : i2c_cyhal_receive(a[1], a[2], a[3], a[4])
    \/ AwaitGuard
    \/ BusAccess
    \/ ArmGuard
    \/ \E a \in ActivateArgs : i2c_cyhal_activate(a[1], a[2], a[3])
    \/ \E self \in Pointers : i2c_cyhal_destroy(self)
    \/ \E self \in Pointers, g \in Durations : ifx_i2c_set_guard_time(self, g)
    \/ Tick
    \/ \E a \in AlarmIds : Fire(a)
    \/ \E a \in AlarmIds : FireStale(a)

Spec == Init /\ [][Next]_vars

(***************************************************************************)
(* The Raspberry Pi build (the transport linked with the signal-driven     *)
(* Timer of timer-rpi.c) under a caller that also uses the accessors.      *)
(***************************************************************************)
ClockArgs == {0, 100000}
AddressArgs == {0, 255, 256}
GuardArgs == {0, Quantum}
GetterArgs == {<<"valid", "valid">>, <<"NULL", "valid">>, <<"valid", "NULL">>}

InitBus ==
    /\ Init
    /\ backend = "posix"
    /\ props.guard_time_us \in GuardArgs

NextBus ==
    \/ \E a \in TransmitArgs : i2c_cyhal_transmit(a[1], a[2], a[3])
    \/ \E a \in ReceiveArgs : i2c_cyhal_receive(a[1], a[2], a[3], a[4])
    \/ AwaitGuard
    \/ BusAccess
    \/ ArmGuard
    \/ \E a \in GetterArgs : ifx_i2c_get_clock_frequency(a[1], a[2])
    \/ \E self \in Pointers, hz \in ClockArgs : ifx_i2c_set_clock_frequency(self, hz)
    \/ \E a \in GetterArgs : ifx_i2c_get_slave_address(a[1], a[2])
    \/ \E self \in Pointers, address \in AddressArgs :
         ifx_i2c_set_slave_address(self, address)
    \/ \E a \in GetterArgs : ifx_i2c_get_guard_time(a[1], a[2])
    \/ \E self \in Pointers, g \in GuardArgs : ifx_i2c_set_guard_time(self, g)
    \/ Tick
    \/ \E a \in AlarmIds : Fire(a)

SpecBus == InitBus /\ [][NextBus]_vars

(***************************************************************************)
(* The transport operations and the accessors with destroy at any time     *)
(***************************************************************************)
NextDown ==
    \/ NextBus
    \/ \E self \in Pointers : i2c_cyhal_destroy(self)
    \/ \E a \in AlarmIds : FireStale(a)

SpecDown == InitBus /\ [][NextDown]_vars

(***************************************************************************)
(* The same operations on an instance initialized with any device address  *)
(* a uint8_t argument can carry.                                           *)
(***************************************************************************)
InitAddresses == {0, 24, 255}

InitAddr ==
    /\ InitTimers
    /\ backend = "posix"
    /\ \E slave_address \in InitAddresses, g \in GuardArgs :
         LET r == i2c_cyhal_initialize("valid", RawObject("NULL"), 3,
                                       slave_address, TRUE, g)
         IN /\ props = r.props
            /\ ret = r.status
            /\ gZero = (g = 0)
    /\ pc = "idle"
    /\ call = NoCall
    /\ out = NoOut
    /\ done = NoDone
    /\ sinceDone = 0

SpecAddr == InitAddr /\ [][NextBus]_vars

(***************************************************************************)
(* The property lookup on a stack of protocol layers: the object the call  *)
(* is made on, its base layer, the base of that one, up to MaxLayers.      *)
(***************************************************************************)
MaxLayers == 3
LayerIds == {I2C_CYHAL_PROTOCOLLAYER_ID, 1}

\* the values _base can have for a stack of at most n further layers
RECURSIVE Bases(_)
Bases(n) ==
    IF n = 0 THEN {<<>>}
    ELSE LET below == Bases(n - 1)
         IN {<<>>} \cup
            {<<[RawObject(pr) EXCEPT !.layer_id = id, !.base = b]>> :
               id \in LayerIds, pr \in {"NULL", "heap"}, b \in below}

InitLookup ==
    /\ InitTimers
    /\ backend = "posix"
    /\ props \in {b[1] : b \in Bases(MaxLayers) \ {<<>>}}
    /\ pc = "idle"
    /\ call = NoCall
    /\ ret = IFX_SUCCESS
    /\ done = NoDone
    /\ sinceDone = 0
    /\ gZero = TRUE
    /\ out = NoOut

\* i2c_cyhal_get_protocol_properties(self, properties_buffer)
Lookup(self, buffer) ==
    /\ pc = "idle"
    /\ IF self = "NULL" \/ buffer = "NULL"
       THEN AccessorReturn(I2C_ERROR("IFX_I2C_CYHAL_GET_PROPERTIES",
                                     "IFX_ILLEGAL_ARGUMENT"), -1)
       ELSE AccessorReturn(i2c_cyhal_get_protocol_properties(props),
                           properties_buffer(props))
    /\ UNCHANGED <<backend, rtos, timerVars, ghostVars, props, pc, call, sinceDone, gZero>>

NextLookup ==
    \E a \in GetterArgs : Lookup(a[1], a[2])

SpecLookup == InitLookup /\ [][NextLookup]_vars

(***************************************************************************)
(* The same build with logging enabled and a logger injected into the      *)
(* initialized protocol object before its first use.                       *)
(***************************************************************************)
Loggers == {"NULL", "succeeds", "fails"}

InitLog ==
    /\ InitTimers
    /\ backend = "posix"
    /\ \E g \in GuardArgs, logger \in Loggers :
         LET r == i2c_cyhal_initialize("valid", RawObject("NULL"), 3, 24, TRUE, g)
         IN /\ props = [r.props EXCEPT !.logger = logger]
            /\ ret = r.status
            /\ gZero = (g = 0)
    /\ pc = "idle"
    /\ call = NoCall
    /\ out = NoOut
    /\ done = NoDone
    /\ sinceDone = 0

NextLog ==
    \/ \E a \in TransmitArgs : i2c_cyhal_transmit(a[1], a[2], a[3])
    \/ \E a \in ReceiveArgs : i2c_cyhal_receive(a[1], a[2], a[3], a[4])
    \/ AwaitGuard
    \/ BusAccess
    \/ ArmGuard
    \/ Tick
    \/ \E a \in AlarmIds : Fire(a)

SpecLog == InitLog /\ [][NextLog]_vars

(***************************************************************************)
(* Claims about the guard-time policy (checked under Spec)                 *)
(***************************************************************************)
GuardSlotEmpty == tmr[GUARD].start = 0
LiveBlocks == {b \in Blocks : heap[b].live}
HeldAlarms == {a \in AlarmIds : alarms[a].st # "free"}

\* C1: with the guard time at G > 0 when an operation returned and still at
\* G when the next one reaches its bus access, that bus access does not
\* start before G has elapsed since the previous operation returned (an
\* operation whose timer could not be armed is left aside).
C1_GuardGapRespected ==
    (pc = "bus" /\ done.any /\ done.g > 0 /\ props.guard_time_us = done.g
       /\ ~done.setFailed)
        => sinceDone >= done.g

\* C2: at every bus access the guard timer that was pending when the call
\* began has been joined and released: the slot is empty, no alarm is still
\* running, and the duration it was armed with has passed.
C2_JoinedAndReleasedBeforeBus ==
    pc = "bus" =>
        /\ GuardSlotEmpty
        /\ call.hadTimer => call.joined
        /\ \A a \in AlarmIds : alarms[a].st # "armed"
        /\ call.joined => sinceDone >= done.g

\* C2 witness: a bus access of a call that found a pending timer and joined it
C2_Witness == pc = "bus" /\ call.hadTimer /\ call.joined /\ done.g > 0

\* C3: with guard time G > 0, every call that attempted its bus operation
\* has armed a guard timer when it returns, whether the bus operation
\* succeeded or failed (unless arming the timer itself failed).
C3_ArmedOnEveryReturn ==
    (done.any /\ done.g > 0) => (done.armed \/ done.setFailed)

\* C4 as stated: a call invoked while the guard time is 0 never joins a
\* guard timer, and an instance whose guard time has always been 0 never
\* has a pending guard timer.
C4_NeverJoinsAtZero ==
    /\ (pc = "bus" /\ call.g0) => ~call.joined
    /\ gZero => GuardSlotEmpty

\* C4 amended: a call joins a guard timer only if the previous bus
\* operation returned while the guard time was nonzero and armed one (so a
\* call invoked at guard time 0 after an operation that returned at guard
\* time 0 never joins), and an instance whose guard time has always been 0
\* never has a pending guard timer and never joins.
C4_JoinsOnlyTimerArmedAtNonzero ==
    /\ (pc = "bus" /\ call.joined) => (done.any /\ done.g > 0 /\ done.armed)
    /\ gZero => (GuardSlotEmpty /\ ~call.joined)

\* C4 witness: a bus access of a call invoked at guard time 0, after an
\* earlier operation, that did not join
C4_Witness == pc = "bus" /\ call.g0 /\ done.any /\ ~call.joined

\* C5: the instance owns at most one live guard timer; the pending-timer slot
\* is non-empty only between the return of a bus operation and the
\* guard-await of the next call, and empty while a bus access is in progress.
C5_AtMostOneGuardTimer ==
    /\ Cardinality(LiveBlocks) <= 1
    /\ Cardinality(HeldAlarms) <= 1
    /\ \A b \in LiveBlocks : tmr[GUARD].start = b
    /\ ~GuardSlotEmpty => (pc \in {"idle", "await"} /\ done.any)
    /\ pc \in {"bus", "arm"} => (GuardSlotEmpty /\ LiveBlocks = {})

\* C5 witness: a call waiting in its guard-await on the one pending timer
C5_Witness == pc = "await" /\ ~GuardSlotEmpty /\ Cardinality(HeldAlarms) = 1

(***************************************************************************)
(* Claims about the Timer contract (checked under SpecTimer)               *)
(***************************************************************************)

\* C6: has_elapsed called right after a successful set(D), before any time
\* passes, returns FALSE when D > 0 and TRUE when D = 0, on every backend.
C6_ElapsedRightAfterSet ==
    (res.op = "has_elapsed" /\ res.afterSet) => (res.elapsed = (res.dur = 0))

\* C7: a join on a timer armed with set(D), D > 0, never returns success
\* before D has elapsed since that set.
C7_JoinNotBeforeDuration ==
    (res.op = "join" /\ res.armed /\ res.dur > 0 /\ res.status = IFX_SUCCESS)
        => res.age >= res.dur

\* C8: once join has returned on an armed timer, has_elapsed on that timer
\* returns TRUE until the timer is re-armed.
C8_ElapsedStaysAfterJoin ==
    (res.op = "has_elapsed" /\ res.afterJoin) => res.elapsed

\* C9: join on a Timer without backend state returns the not-set error
\* (LIB_TIMER, IFX_TIMER_JOIN, IFX_TIMER_NOT_SET) without waiting and
\* without changing the Timer, the heap or any alarm; has_elapsed on such a
\* Timer returns TRUE.
C9_JoinOnEmptyTimer ==
    /\ (res.op = "join" /\ ~res.armed)
          => (res.status = TIMER_NOT_SET /\ res.unchanged)
    /\ (res.op = "has_elapsed" /\ ~res.armed) => res.elapsed
    /\ \A h \in Handles : tmr[h].start = 0 =>
          /\ join_ready(backend, tmr, heap, alarms, h)
          /\ ifx_timer_join(backend, tmr, heap, alarms, h, FALSE)
                = Res(tmr, heap, alarms, TIMER_NOT_SET)
          /\ \A u \in BOOLEAN :
                ifx_timer_has_elapsed(backend, tmr, heap, alarms, h, u)

\* C9 witness: join returned not-set on a Timer that was set and destroyed
C9_Witness ==
    res.op = "join" /\ ~res.armed /\ res.status = TIMER_NOT_SET /\ res.dur > 0

\* C10: destroy from any Timer state leaves the Timer empty (has_elapsed
\* TRUE, join returns not-set) with its block released, and a second
\* destroy changes nothing.
C10_DestroyIdempotentTotal ==
    res.op = "destroy" =>
        /\ tmr[res.h] = NoTimer
        /\ LiveBlocks = {}
        /\ \A a \in AlarmIds : alarms[a].st \in {"free", "zombie"}
        /\ \A u \in BOOLEAN :
              ifx_timer_has_elapsed(backend, tmr, heap, alarms, res.h, u)
        /\ ifx_timer_join(backend, tmr, heap, alarms, res.h, FALSE).status
              = TIMER_NOT_SET
        /\ \A z \in BOOLEAN :
              ifx_timer_destroy(backend, tmr, heap, alarms, res.h, z)
                 = Res(tmr, heap, alarms, IFX_SUCCESS)

\* C10 witness: destroy of a timer that was armed and still running
C10_Witness ==
    res.op = "destroy" /\ res.armed /\ res.dur > 0 /\ res.age < res.dur

\* C12: whenever set returns an error - malloc, the creation of the alarm
\* or any later step failing - the heap and the alarms are as before the
\* call (everything acquired was released) and the Timer is unchanged.
C12_SetFailureReleasesAll ==
    /\ (res.op = "set" /\ ifx_error_check(res.status)) => res.unchanged
    /\ \A h \in Handles : tmr[h].start = 0 =>
          \A us \in Durations, b \in MallocChoices(heap),
             a \in CreateChoices(alarms), f \in SetFailures(backend) :
               LET r == ifx_timer_set(backend, tmr, heap, alarms, h, us, b, a, f)
               IN ifx_error_check(r.status)
                     => (r.tmr = tmr /\ r.heap = heap /\ r.alarms = alarms)

\* C12 witness: a set that failed after its block had been allocated
C12_Witness ==
    /\ res.op = "set" /\ res.status = SET_ERROR("IFX_UNSPECIFIED_ERROR")
    /\ LiveBlocks = {}

\* C13: a set, has_elapsed, join or destroy on one Timer never changes
\* another Timer, its backend state or its alarm.
C13_HandlesIsolated ==
    res.op # "none" => res.isolated

Initialized == props.properties = "heap"

\* C14: a transmit called with a null buffer, a zero length or a length
\* above 0xffffffff returns IllegalArgument at once: the call takes no step
\* towards the bus (no device-select, no write), the guard timer is neither
\* joined nor re-armed, and the instance state stays as it was.
C14_TransmitRejectsBadArguments ==
    [][\A a \in TransmitArgs :
         (/\ a[2] = "NULL" \/ a[3] = SizeT(0) \/ LenExceedsUint32(a[3])
          /\ i2c_cyhal_transmit(a[1], a[2], a[3]))
            => /\ ret' = I2C_ERROR("IFX_PROTOCOL_TRANSMIT", "IFX_ILLEGAL_ARGUMENT")
               /\ pc' = "idle"
               /\ done' = [done EXCEPT !.used = TRUE]
               /\ UNCHANGED <<timerVars, props, sinceDone, gZero>>]_vars

\* a transmit was rejected while a guard timer was pending
C14_Witness ==
    /\ pc = "idle" /\ Initialized /\ ~GuardSlotEmpty
    /\ ret = I2C_ERROR("IFX_PROTOCOL_TRANSMIT", "IFX_ILLEGAL_ARGUMENT")

\* C15: a receive called with expected_len 0, above 0xffffffff or equal to
\* the length-unknown sentinel, or with a null output pointer, returns
\* IllegalArgument at once: no buffer is allocated, no bus access is made,
\* the pending guard timer is not consumed and no output is written.
C15_ReceiveRejectsBadArguments ==
    [][\A a \in ReceiveArgs :
         (/\ \/ a[2] = SizeT(0) \/ LenExceedsUint32(a[2])
             \/ a[2] = IFX_PROTOCOL_RECEIVE_LEN_UNKOWN
             \/ a[3] = "NULL" \/ a[4] = "NULL"
          /\ i2c_cyhal_receive(a[1], a[2], a[3], a[4]))
            => /\ ret' = I2C_ERROR("IFX_PROTOCOL_RECEIVE", "IFX_ILLEGAL_ARGUMENT")
               /\ pc' = "idle"
               /\ ~call'.buf
               /\ out' = NoOut
               /\ done' = [done EXCEPT !.used = TRUE]
               /\ UNCHANGED <<timerVars, props, sinceDone, gZero>>]_vars

\* a receive was rejected while a guard timer was pending
C15_Witness ==
    /\ pc = "idle" /\ Initialized /\ ~GuardSlotEmpty
    /\ ret = I2C_ERROR("IFX_PROTOCOL_RECEIVE", "IFX_ILLEGAL_ARGUMENT")
    /\ out = NoOut

\* C16: receive never reports success with a buffer that the bus did not
\* fill completely: a returned buffer holds as many bytes as response_len
\* says (a short or failed read ends with response = null, response_len = 0).
C16_ShortReadIsAnError ==
    (pc = "idle" /\ ret = IFX_SUCCESS /\ out.response = "buf")
        => out.filled = out.response_len

\* C17: when the read yielded exactly expected_len bytes, receive returns
\* success unless arming the guard timer failed, and then the caller holds
\* a buffer of expected_len bytes, all read from the bus, with
\* response_len = expected_len.
C17_FullReadHandsOverBuffer ==
    [][(/\ pc = "arm" /\ call.op = "receive" /\ call.n = call.len
        /\ pc' = "idle" /\ ret'.function # "IFX_TIMER_SET")
          => /\ ret' = IFX_SUCCESS
             /\ out' = Output("buf", call.len, call.len)]_vars

\* a receive of two bytes returned success and re-armed the guard timer
C17_Witness ==
    /\ pc = "idle" /\ ret = IFX_SUCCESS /\ ~GuardSlotEmpty
    /\ out = Output("buf", 2, 2)

\* C18: destroy never faults, whatever the state of the instance, and
\* leaves neither instance state nor a guard timer behind.
C18_DestroySafeInAnyState ==
    /\ ~done.badFree
    /\ props.properties = "NULL" => (GuardSlotEmpty /\ LiveBlocks = {})

\* C19: an initialize rejected for its arguments allocates nothing; an
\* instance on which no call was made since its successful initialize has
\* the default clock frequency, guard time 0, the address it was given and
\* no pending guard timer.
C19_InitializeDefaults ==
    /\ ret = I2C_ERROR("IFX_PROTOCOL_LAYER_INITIALIZE", "IFX_ILLEGAL_ARGUMENT")
          => (~Initialized /\ LiveBlocks = {})
    /\ (Initialized /\ ~done.used)
          => /\ props.clock_frequency_hz = I2C_CYHAL_DEFAULT_CLOCK_FREQUENCY_HZ
             /\ props.guard_time_us = 0
             /\ props.slave_address \in SlaveAddresses
             /\ GuardSlotEmpty

\* C20: activate on a non-null protocol object returns success with an
\* empty response (null buffer, length 0) in every instance state; it makes
\* no step towards the bus and leaves the guard timer and the cached
\* properties unchanged.
C20_ActivateAlwaysEmptySuccess ==
    [][\A a \in ActivateArgs :
         (a[1] # "NULL" /\ i2c_cyhal_activate(a[1], a[2], a[3]))
            => /\ ret' = IFX_SUCCESS
               /\ a[2] # "NULL" => out'.response = "NULL"
               /\ a[3] # "NULL" => out'.response_len = 0
               /\ pc' = "idle"
               /\ done'.any = done.any
               /\ UNCHANGED <<timerVars, props, call, sinceDone, gZero>>]_vars

\* activate returned its empty response while a guard timer was pending
C20_Witness ==
    /\ pc = "idle" /\ ret = IFX_SUCCESS /\ ~GuardSlotEmpty
    /\ out = Output("NULL", 0, 0)

(***************************************************************************)
(* Claims about the accessors and the bus accesses (checked under SpecBus) *)
(***************************************************************************)
\* a step in which the call in progress accessed the bus handle
BusStep == call'.bus # call.bus /\ call'.bus # <<>>

\* C21: a setter that succeeds changes its own cached field to the value
\* passed and one that fails changes none; a getter changes no field and
\* stores the cached value of its own field; no accessor touches the native
\* handle, the pending guard timer or the bus handle.
C21_AccessorsTouchOwnField ==
    [][/\ \A self \in Pointers, hz \in ClockArgs :
            ifx_i2c_set_clock_frequency(self, hz)
              => /\ props' = IF ret' = IFX_SUCCESS
                             THEN [props EXCEPT !.clock_frequency_hz = hz]
                             ELSE props
                 /\ UNCHANGED <<timerVars, pc, call>>
       /\ \A self \in Pointers, address \in AddressArgs :
            ifx_i2c_set_slave_address(self, address)
              => /\ props' = IF ret' = IFX_SUCCESS
                             THEN [props EXCEPT !.slave_address = address]
                             ELSE props
                 /\ UNCHANGED <<timerVars, pc, call>>
       /\ \A self \in Pointers, g \in GuardArgs :
            ifx_i2c_set_guard_time(self, g)
              => /\ props' = IF ret' = IFX_SUCCESS
                             THEN [props EXCEPT !.guard_time_us = g]
                             ELSE props
                 /\ UNCHANGED <<timerVars, pc, call>>
       /\ \A a \in GetterArgs :
            /\ ifx_i2c_get_clock_frequency(a[1], a[2])
                 => /\ ret' = IFX_SUCCESS => out'.value = props.clock_frequency_hz
                    /\ UNCHANGED <<timerVars, pc, call, props>>
            /\ ifx_i2c_get_slave_address(a[1], a[2])
                 => /\ ret' = IFX_SUCCESS => out'.value = props.slave_address
                    /\ UNCHANGED <<timerVars, pc, call, props>>
            /\ ifx_i2c_get_guard_time(a[1], a[2])
                 => /\ ret' = IFX_SUCCESS => out'.value = props.guard_time_us
                    /\ UNCHANGED <<timerVars, pc, call, props>>]_vars

\* get_slave_address returned the address set before, a guard timer pending
C21_Witness ==
    /\ pc = "idle" /\ ret = IFX_SUCCESS /\ ~GuardSlotEmpty
    /\ out.value = 255 /\ props.slave_address = 255
    /\ props.clock_frequency_hz = I2C_CYHAL_DEFAULT_CLOCK_FREQUENCY_HZ

\* C22: on an initialized instance set_slave_address returns IllegalArgument
\* for address 0 and for every address above 0xff and leaves the cached
\* address as it was; for an address in 0x01..0xff it returns success, and
\* the device-select of a later operation is made with that address.
C22_SlaveAddressRange ==
    [][/\ \A address \in AddressArgs :
            (Initialized /\ ifx_i2c_set_slave_address("valid", address))
              => IF address = 0 \/ address > 255
                 THEN /\ ret' = PROTOCOL_ERROR("IFX_I2C_SET_SLAVE_ADDR",
                                               "IFX_ILLEGAL_ARGUMENT")
                      /\ props' = props
                 ELSE /\ ret' = IFX_SUCCESS
                      /\ props'.slave_address = address
       /\ BusStep => (call'.bus[1].op = "select"
                        /\ call'.bus[1].arg = props.slave_address)]_vars

\* a transmit selected the device with the address set by set_slave_address
C22_Witness ==
    /\ pc = "arm" /\ call.op = "transmit"
    /\ props.slave_address = 255
    /\ call.bus[1] = BusSelect(255, TRUE)

C29_SelectBeforeEveryTransfer ==
    [][call'.bus # call.bus =>
         \/ call'.bus = <<>>
         \/ /\ pc = "bus" /\ call.bus = <<>>
            /\ call'.bus[1].op = "select"
            /\ call'.bus[1].arg = props.slave_address
            /\ IF call'.bus[1].result # 0
               THEN Len(call'.bus) = 1
               ELSE /\ Len(call'.bus) = 2
                    /\ call'.bus[2].op =
                          (IF call.op = "transmit" THEN "write" ELSE "read")
                    /\ call'.bus[2].arg = call.len]_vars

\* a receive read from the device at the address set by set_slave_address
C29_Witness ==
    /\ pc = "arm" /\ call.op = "receive"
    /\ call.bus = <<BusSelect(255, TRUE), BusTransfer("read", 2, 2)>>

ReceiveFailsWithBuffer ==
    /\ pc \in {"bus", "arm"} /\ call.op = "receive" /\ call.buf
    /\ pc' = "idle" /\ ifx_error_check(ret')

\* C27: every receive that fails after its buffer was allocated returns
\* with response = NULL and response_len = 0, the buffer freed.
C27_FailedReceiveFreesBuffer ==
    [][ReceiveFailsWithBuffer => out' = Output("NULL", 0, 0)]_vars

\* the bus operation of the call succeeded and arming the guard timer fails
ArmingFails ==
    /\ pc = "arm" /\ pc' = "idle" /\ ifx_error_check(ret')

\* C26: when the bus operation succeeded and arming the guard timer fails,
\* the call returns the error of the Timer API's set, which is neither
\* success nor the transport's unspecified error; a receive returns with
\* response = NULL and response_len = 0; no guard timer is left pending.
C26_ArmingFailureReported ==
    [][ArmingFails =>
         /\ ret'.module = "LIB_TIMER" /\ ret'.function = "IFX_TIMER_SET"
         /\ ret' # I2C_ERROR("IFX_PROTOCOL_TRANSMIT", "IFX_UNSPECIFIED_ERROR")
         /\ (call.op = "receive" => out' = Output("NULL", 0, 0))
         /\ tmr'[GUARD].start = 0]_vars

\* a receive whose read succeeded returned the set error, buffer released
C26_Witness ==
    /\ pc = "idle" /\ done.setFailed
    /\ ret.module = "LIB_TIMER" /\ ret.function = "IFX_TIMER_SET"
    /\ Len(call.bus) = 2 /\ call.bus[2].op = "read" /\ call.bus[2].result = 2
    /\ out = Output("NULL", 0, 0)
    /\ GuardSlotEmpty

(***************************************************************************)
(* Claim about the guard-await step (checked under SpecAwait)              *)
(***************************************************************************)
\* C25: the guard-await returns success when no guard timer is pending or
\* join reports not-set, returns any other error of join unchanged, and
\* always leaves the guard timer slot empty.
C25_AwaitResult ==
    [][TAwait =>
         /\ tmr'[GUARD].start = 0
         /\ IF tmr[GUARD].start = 0
            THEN res'.status = IFX_SUCCESS
            ELSE \A z \in DeleteChoices(tmr, GUARD) :
                   LET j == ifx_timer_join(backend, tmr, heap, alarms, GUARD, z)
                   IN res'.status = IF j.status = TIMER_NOT_SET
                                    THEN IFX_SUCCESS ELSE j.status]_vars

\* join failed on a pending timer: its error was returned and the timer
\* was released all the same
C25_Witness ==
    /\ res.op = "await" /\ res.armed
    /\ res.status = JOIN_ERROR("IFX_UNSPECIFIED_ERROR")
    /\ tmr[GUARD].start = 0

\* a transmit that passed its argument checks returns in this step
TransmitReturns ==
    /\ call.op = "transmit" /\ pc # "idle" /\ pc' = "idle"

\* the device-select of the returned call succeeded / its write transferred
\* every byte, as the bus accesses of the call show
SelectSucceeded(bus) ==
    IF Len(bus) = 0 THEN FALSE ELSE bus[1].result = 0
WroteAll(bus) ==
    IF Len(bus) < 2 THEN FALSE
    ELSE bus[2].op = "write" /\ bus[2].result = bus[2].arg

\* C28: a transmit with valid arguments returns success exactly when the
\* guard-await succeeded, the device-select succeeded, the write transferred
\* data_len bytes and the new guard timer was armed; a failed device-select
\* or a shorter write gives the unspecified-error reason.
C28_TransmitSuccessIff ==
    [][TransmitReturns =>
         LET bus == call'.bus
             armed == pc = "arm" /\ (props.guard_time_us > 0 => tmr'[GUARD].start # 0)
         IN /\ (ret' = IFX_SUCCESS) <=>
                 (pc # "await" /\ SelectSucceeded(bus) /\ WroteAll(bus) /\ armed)
            /\ (pc = "bus" /\ (~SelectSucceeded(bus) \/ ~WroteAll(bus)))
                 => ret' = I2C_ERROR("IFX_PROTOCOL_TRANSMIT", "IFX_UNSPECIFIED_ERROR")]_vars

\* a transmit of two bytes returned success with the guard timer armed
C28_Witness ==
    /\ pc = "idle" /\ ret = IFX_SUCCESS
    /\ call.bus = <<BusSelect(24, TRUE), BusTransfer("write", 2, 2)>>
    /\ done.armed /\ tmr[GUARD].start # 0

(***************************************************************************)
(* Claim about the property lookup (checked under SpecLookup)              *)
(***************************************************************************)
\* the layers of the stack from p downwards
RECURSIVE LayerChain(_)
LayerChain(p) ==
    <<p>> \o (IF p.base = <<>> THEN <<>> ELSE LayerChain(p.base[1]))

\* C30: the lookup on a finite stack of layers returns the state of the
\* nearest layer (the layer itself or a base, direct or not) that carries
\* the transport's identifier; it returns protocol-stack-invalid when no
\* layer carries it or when that layer has no state.
C30_LookupFindsNearestLayer ==
    (done.used /\ ret.reason # "IFX_ILLEGAL_ARGUMENT") =>
      LET chain == LayerChain(props)
          ours  == {i \in 1..Len(chain) :
                      chain[i].layer_id = I2C_CYHAL_PROTOCOLLAYER_ID}
          invalid == I2C_ERROR("IFX_I2C_CYHAL_GET_PROPERTIES",
                               "IFX_PROTOCOL_STACK_INVALID")
      IN IF ours = {} THEN ret = invalid /\ out.value = -1
         ELSE LET nearest == CHOOSE i \in ours : \A k \in ours : i <= k
              IN IF chain[nearest].properties = "NULL"
                 THEN ret = invalid /\ out.value = -1
                 ELSE ret = IFX_SUCCESS /\ out.value = nearest - 1

\* the lookup passed two foreign layers, one of them with state, and
\* returned the state of the transport layer below them
C30_Witness ==
    /\ done.used /\ ret = IFX_SUCCESS /\ out.value = 2
    /\ props.layer_id = 1 /\ props.properties = "heap"
    /\ Len(LayerChain(props)) = 3

(***************************************************************************)
(* Claim about the function part of the error statuses                     *)
(***************************************************************************)
\* the call returns an error of its device-select or of its write / read
OwnBusError ==
    /\ pc = "bus" /\ pc' = "idle" /\ ifx_error_check(ret')

\* C31: an error that transmit or receive produces itself carries the
\* transport module and the function identifier of that operation.
C31_ErrorNamesItsOperation ==
    [][OwnBusError =>
         ret'.function = IF call.op = "receive" THEN "IFX_PROTOCOL_RECEIVE"
                         ELSE "IFX_PROTOCOL_TRANSMIT"]_vars

(***************************************************************************)
(* Claim about the interval the signal-driven backend programs             *)
(* (checked under SpecInterval)                                            *)
(***************************************************************************)
\* this step is set(us) on the empty handle 1 with malloc returning b,
\* timer_create returning a and no system call failing for another reason
SetStep(us, b, a) ==
    /\ tmr[1].start = 0 /\ res'.op = "set"
    /\ LET r == ifx_timer_set(backend, tmr, heap, alarms, 1, us, b, a, "none")
       IN tmr' = r.tmr /\ heap' = r.heap /\ alarms' = r.alarms
                       /\ res'.status = r.status

\* C32: on the signal-driven backend, set(us) programs a one-shot interval
\* of us microseconds for every us up to 2^32-1, so every guard time that
\* set_guard_time stores can be armed.
C32_EveryDurationIsArmed ==
    [][\A us \in IntervalArgs, b \in Blocks, a \in AlarmIds :
         (~heap[b].live /\ a \in CreateChoices(alarms) /\ SetStep(us, b, a)) =>
           /\ res'.status = IFX_SUCCESS
           /\ alarms'[a].st = "armed" /\ alarms'[a].rem = us]_vars

(***************************************************************************)
(* Claim about the expiry callback racing with set (checked under          *)
(* SpecSched)                                                              *)
(***************************************************************************)
\* C33: on the scheduler-integrated backend, once the callback of a
\* successfully armed timer has run, the semaphore of that timer is
\* released until a join takes it, also when the callback ran before set
\* stored the backend state in the handle; so the join after a successful
\* set returns.
C33_CallbackReleasesSemaphore ==
    (~Setting /\ tmr[1].start # 0 /\ ~gJoined[1]) =>
      LET data == heap[tmr[1].start]
      IN (data.timerId # 0 /\ alarms[data.timerId].st = "idle")
           => data.sleeper = "FULL"

(***************************************************************************)
(* Claim about notifications of destroyed timers (checked under SpecTimer) *)
(***************************************************************************)
\* C34: the expiry notification of a timer that was destroyed before the
\* notification ran touches no released backend state and changes nothing
\* of a timer armed later: no elapsed flag is set and no semaphore released.
C34_StaleNotificationIsHarmless ==
    [][\A a \in AlarmIds : FireStale(a) => (~uaf' /\ heap' = heap)]_vars

(***************************************************************************)
(* Claim about the cached device address (checked under SpecAddr)          *)
(***************************************************************************)
\* C35: the device address of an initialized instance is in 0x01..0xFF
\* after any initialize and set_slave_address calls, and no device-select
\* is issued with address 0.
C35_AddressNeverZero ==
    props.properties = "heap" =>
      /\ props.slave_address \in 1..255
      /\ \A i \in 1..Len(call.bus) :
            call.bus[i].op = "select" => call.bus[i].arg # 0

(***************************************************************************)
(* Claim about the destroyed instance (checked under SpecDown)             *)
(***************************************************************************)
\* this step is a transmit, receive, getter or setter with valid arguments
ValidCall ==
    \/ \E n \in Lens \ {0} : i2c_cyhal_transmit("valid", "valid", SizeT(n))
    \/ \E n \in Lens \ {0} : i2c_cyhal_receive("valid", SizeT(n), "valid", "valid")
    \/ ifx_i2c_get_clock_frequency("valid", "valid")
    \/ ifx_i2c_get_slave_address("valid", "valid")
    \/ ifx_i2c_get_guard_time("valid", "valid")
    \/ \E hz \in ClockArgs \ {0} : ifx_i2c_set_clock_frequency("valid", hz)
    \/ \E address \in AddressArgs \cap 1..255 :
         ifx_i2c_set_slave_address("valid", address)
    \/ \E g \in GuardArgs : ifx_i2c_set_guard_time("valid", g)

\* C36: on an instance whose state destroy has released, every transmit,
\* receive, getter and setter with valid arguments returns the
\* protocol-stack-invalid error, accesses no bus, arms no timer and leaves
\* the instance and the heap as they are.
C36_DestroyedInstanceRejectsCalls ==
    [][(props.properties = "NULL" /\ ValidCall) =>
         /\ ret' = I2C_ERROR("IFX_I2C_CYHAL_GET_PROPERTIES",
                             "IFX_PROTOCOL_STACK_INVALID")
         /\ pc' = "idle" /\ ~BusStep
         /\ UNCHANGED <<tmr, heap, alarms, uaf, props>>]_vars

\* an instance that transferred data and armed its guard timer was
\* destroyed, and a call made afterwards was rejected
C36_Witness ==
    /\ props.properties = "NULL" /\ props.layer_id = I2C_CYHAL_PROTOCOLLAYER_ID
    /\ done.any /\ done.armed /\ GuardSlotEmpty /\ pc = "idle"
    /\ ret = I2C_ERROR("IFX_I2C_CYHAL_GET_PROPERTIES", "IFX_PROTOCOL_STACK_INVALID")

(***************************************************************************)
(* Claim about a repeated join (checked under SpecTimer)                   *)
(***************************************************************************)
\* C37: after a join on an armed timer has returned, a second join on the
\* same Timer, with no destroy or set in between, returns: its wait is
\* over or a notification that ends it is still to come, and it finds the
\* alarm or hardware timer of the Timer not yet released.
C37_SecondJoinTerminates ==
    (gJoined[1] /\ tmr[1].start # 0) =>
      /\ \/ join_ready(backend, tmr, heap, alarms, 1)
         \/ \E a \in AlarmIds : alarms[a].st \in {"armed", "zombie"}
      /\ backend = "cyhal" => heap[tmr[1].start].timerId # 0

(***************************************************************************)
(* Claims about the queued RTOS logger (checked under SpecLogger)          *)
(***************************************************************************)
\* C38: every message for which log returned success after enqueueing is
\* still queued or with the consumer, or it was delivered once or discarded
\* by destroy, its record and strings freed exactly once; deliveries are in
\* enqueue order; a message that was filtered or rejected is never
\* delivered and leaves nothing allocated.
C38_MessagesDeliveredOrDiscardedOnce ==
    LET queued == {rtos.queue[i] : i \in 1..Len(rtos.queue)}
        sent == {rtos.delivered[i] : i \in 1..Len(rtos.delivered)}
    IN /\ \A m \in rtos.accepted :
            \/ m \in queued
            \/ rtos.cons = "got" /\ rtos.consHeld = m
            \/ rtos.msg[m] = "freed"
       /\ \A m \in Msgs : rtos.msg[m] # "twice"
       /\ Cardinality(sent) = Len(rtos.delivered)
       /\ \A i, j \in 1..Len(rtos.delivered) :
            i < j => rtos.delivered[i] < rtos.delivered[j]
       /\ \A m \in Msgs \ rtos.accepted :
            /\ m \notin sent
            /\ rtos.msg[m] = "allocated" => (rtos.prod = "put" /\ rtos.prodHeld = m)

\* C39: once destroy has released the queue and the data of the logger,
\* neither the consumer task nor a log call accesses them again.
C39_NoAccessAfterDestroy ==
    rtos.data = "freed" => ~rtos.stale

====
